---- MODULE Spec2Model ----
(***************************************************************************)
(* Per-view object tracker (backend/view_object_tracker.py) and the        *)
(* CV movement detector it drives (backend/movement_detector.py).          *)
(*                                                                         *)
(* Time.  The code reads the wall clock (time.time()) and uses every       *)
(* stored timestamp only through the difference current_time - timestamp.  *)
(* Each timestamp field X_time is therefore carried as X_age, the whole    *)
(* seconds elapsed since it was set; Tick lets one second pass.  An age    *)
(* saturates Slack seconds above the threshold it is compared with.        *)
(* A timestamp that is None is the age NoAge.                              *)
(*                                                                         *)
(* Units.  Confidences are hundredths (0.15 is 15).  Pixel positions are   *)
(* fixed point, PosScale units per pixel.                                  *)
(*                                                                         *)
(* Fields the code writes but never branches on (first_seen_time of the    *)
(* tracker, detection_count, last_real_depth, has_ever_had_real_depth,     *)
(* depth_history, trigger_count, the timestamps and durations stored in    *)
(* events) are not carried.                                                *)
(***************************************************************************)
EXTENDS Integers, Sequences, FiniteSets, TLC

\* ------------------------------------------------------------------ bounds
MaxDets == 1
Slack == 0
PosScale == 10
MaxPending == 2
MaxUpdates == 5
MaxFrames == 4
DepthScale == 100
MaxDups == 2

\* ------------------------------------------------------- program constants
DisappearTimeout == 3
UpdateInterval == 3
QualityThreshold == 15
MovementThresholdPercent == 10
FrameWidth == 1920
FrameHeight == 1080
CartAbandonedTimeout == 4
StabilizationTime == 2
CartAbandonedCooldown == 1
PersonDwell == 4

\* ------------------------------------------------------------ Python values
None == <<>>
NoId == 0
NoAge == -1
Unset == "unset"
NoError == "None"

\* No result has set new_results_ready
NoResult == [frame |-> 0, detections |-> <<>>]

VARIABLES
  view_states,               \* ViewObjectTracker.view_states
  pending_absent_marks,      \* ViewObjectTracker.pending_absent_marks
  pending_behavioral_events, \* ViewObjectTracker.pending_behavioral_events
  object_states,             \* MovementDetector.object_states
  pending_events,            \* MovementDetector.pending_events
  person_proximity,          \* MovementDetector.person_proximity
  updates,                   \* update_position calls since the last register_object
  lifetime_events,           \* event types emitted for DetectorKey since its registration,
                             \* with TIMEOUT when a CART_ABANDONED came from the timeout check
  emission_order,            \* the events emitted inside calls of the tracker since its
                             \* last drain, in the order of their emission
  ret,                       \* the last call: its name, arguments and outcome
  pending,                   \* RemoteGroundingDinoDetector.pending
  new_results_ready,         \* RemoteGroundingDinoDetector.new_results_ready
  latest_detections,         \* RemoteGroundingDinoDetector.latest_detections
  latest_error,              \* RemoteGroundingDinoDetector.latest_error
  threads,                   \* the worker threads started and not yet ended
  capture,                   \* the capture loop inside detect_with_depth: position and locals
  frames,                    \* frames the capture loop has handed to detect_with_depth
  flagged_by,                \* the result that set new_results_ready last: frame and detections
  unsurfaced                 \* latest_error is a failure that no poll has read yet

remoteVars == <<pending, new_results_ready, latest_detections, latest_error,
                threads, capture, frames, flagged_by, unsurfaced>>

vars == <<view_states, pending_absent_marks, pending_behavioral_events,
          object_states, pending_events, person_proximity, updates, lifetime_events,
          emission_order, ret, remoteVars>>

\* --------------------------------------------------- insertion-ordered dict
\* A Python dict is a sequence of records with a key field, in insertion order.
Has(d, k) == \E i \in 1..Len(d) : d[i].key = k

Idx(d, k) == CHOOSE i \in 1..Len(d) : d[i].key = k

Get(d, k) == d[Idx(d, k)]

Put(d, k, r) == IF Has(d, k) THEN [d EXCEPT ![Idx(d, k)] = r] ELSE Append(d, r)

Del(d, k) == SelectSeq(d, LAMBDA e : e.key # k)

Keys(d) == [i \in 1..Len(d) |-> d[i].key]

Range(s) == {s[i] : i \in 1..Len(s)}

Older(age, cap) == IF age = NoAge THEN NoAge ELSE IF age < cap THEN age + 1 ELSE age

Max(a, b) == IF a >= b THEN a ELSE b

Abs(a) == IF a >= 0 THEN a ELSE 0 - a

\* ============================================================================
\* MovementDetector
\* ============================================================================

\* The methods class MovementDetector defines.
MovementDetectorMethods ==
  {"_get_threshold_x", "_get_threshold_y", "set_threshold", "set_frame_dimensions",
   "_calculate_displacement", "_is_beyond_threshold", "_is_within_threshold",
   "_get_bbox_center", "register_object", "update_position", "get_pending_events",
   "get_object_state", "get_all_states", "reset_object", "reset_all",
   "check_cart_abandoned_timeouts", "_clear_atomic_state", "update_person_proximity",
   "_is_person_near_object", "get_person_proximity_state", "handle_exit_with_person"}

\* self.movement_threshold_percent = max(0.0, min(100.0, percent))
set_threshold(percent) == IF percent < 0 THEN 0 ELSE IF percent > 100 THEN 100 ELSE percent

\* The thresholds of a detector whose movement_threshold_percent is percent
ThresholdX(percent) == (FrameWidth * percent * PosScale) \div 100

ThresholdY(percent) == (FrameHeight * percent * PosScale) \div 100

BeyondAt(percent, dx, dy) == dx > ThresholdX(percent) \/ dy > ThresholdY(percent)

\* threshold *= 2 in place of threshold *= 0.5
WithinTwiceAt(percent, dx, dy, use_tolerance) ==
  IF use_tolerance
  THEN dx <= 2 * ThresholdX(percent) /\ dy <= 2 * ThresholdY(percent)
  ELSE dx <= ThresholdX(percent) /\ dy <= ThresholdY(percent)

\* threshold *= 0.5 under use_tolerance: dx <= t/2 is 2*dx <= t
WithinAt(percent, dx, dy, use_tolerance) ==
  IF use_tolerance
  THEN 2 * dx <= ThresholdX(percent) /\ 2 * dy <= ThresholdY(percent)
  ELSE dx <= ThresholdX(percent) /\ dy <= ThresholdY(percent)

_get_threshold_x == ThresholdX(MovementThresholdPercent)

_get_threshold_y == ThresholdY(MovementThresholdPercent)

_calculate_displacement(state) ==
  [dx |-> Abs(state.current_x - state.home_x), dy |-> Abs(state.current_y - state.home_y)]

\* AND in place of OR
_is_beyond_threshold_both(dx, dy) == dx > _get_threshold_x /\ dy > _get_threshold_y

_is_beyond_threshold(dx, dy) == BeyondAt(MovementThresholdPercent, dx, dy)

_is_within_threshold(dx, dy, use_tolerance) ==
  WithinAt(MovementThresholdPercent, dx, dy, use_tolerance)

\* bbox = <<x, y, w, h>>; center = (x + w/2, y + h/2)
_get_bbox_center(bbox) ==
  [x |-> ((2 * bbox[1] + bbox[3]) * PosScale) \div 2,
   y |-> ((2 * bbox[2] + bbox[4]) * PosScale) \div 2]

\* No smoothing: the sample itself
EmaSample(sample, old) == sample

\* alpha * sample + (1 - alpha) * old with alpha = 0.3, rounded to the unit
Ema(sample, old) == (3 * sample + 7 * old + 5) \div 10

\* A key that is registered keeps its state
register_object_once(m, view_angle, class_name, object_id, bbox) ==
  IF Has(m.object_states, <<view_angle, class_name>>) THEN m
  ELSE [m EXCEPT !.object_states =
          Append(@, [key |-> <<view_angle, class_name>>, object_id |-> object_id,
                     home_x |-> _get_bbox_center(bbox).x, home_y |-> _get_bbox_center(bbox).y,
                     current_x |-> _get_bbox_center(bbox).x,
                     current_y |-> _get_bbox_center(bbox).y,
                     smoothed_x |-> 0, smoothed_y |-> 0,
                     is_moved |-> FALSE, was_ever_moved |-> FALSE,
                     behavioral_state |-> "PRESENT",
                     first_seen_age |-> 0,
                     moved_age |-> NoAge,
                     last_cart_abandoned_age |-> NoAge])]

\* m = [object_states, pending_events, person_proximity]
register_object(m, view_angle, class_name, object_id, bbox) ==
  LET key == <<view_angle, class_name>>
      c == _get_bbox_center(bbox)
      state == [key |-> key, object_id |-> object_id,
                home_x |-> c.x, home_y |-> c.y,
                current_x |-> c.x, current_y |-> c.y,
                smoothed_x |-> 0, smoothed_y |-> 0,
                is_moved |-> FALSE, was_ever_moved |-> FALSE,
                behavioral_state |-> "PRESENT",
                first_seen_age |-> 0,
                moved_age |-> NoAge,
                last_cart_abandoned_age |-> NoAge]
  IN [m EXCEPT !.object_states = Put(@, key, state)]

Event(type, state, view_angle, class_name, was_moved) ==
  [type |-> type, object_id |-> state.object_id, class_name |-> class_name,
   view_angle |-> view_angle, was_moved |-> was_moved]

\* No stabilization window
NeverInStabilization(state) == FALSE

\* time_since_registered < self.stabilization_time
InStabilization(state) == state.first_seen_age < StabilizationTime

\* No state blocks the detection of a movement
NeverPinned(state) == FALSE

\* state.behavioral_state == BehavioralState.CART_ABANDONED
Pinned(state) == state.behavioral_state = "CART_ABANDONED"

\* No cooldown after a return
NeverInCooldown(state) == FALSE

\* last_cart_abandoned_time is set and less than cart_abandoned_cooldown ago
InCooldown(state) ==
  /\ state.last_cart_abandoned_age # NoAge
  /\ state.last_cart_abandoned_age < CartAbandonedCooldown

\* Returns [m |-> the detector afterwards, state |-> the returned state or None]
update_position(m, view_angle, class_name, bbox) ==
  LET key == <<view_angle, class_name>> IN
  IF ~Has(m.object_states, key) THEN [m |-> m, state |-> None]
  ELSE
    LET state0 == Get(m.object_states, key)
        c == _get_bbox_center(bbox)
        first == state0.smoothed_x = 0
        sx == IF first THEN c.x ELSE Ema(c.x, state0.smoothed_x)
        sy == IF first THEN c.y ELSE Ema(c.y, state0.smoothed_y)
        state1 == [state0 EXCEPT !.smoothed_x = sx, !.smoothed_y = sy,
                                 !.current_x = sx, !.current_y = sy]
        d == _calculate_displacement(state1)
        in_stabilization == InStabilization(state1)
        in_cooldown == InCooldown(state1)
        \* cooldown expired: the timestamp is cleared
        state2 == IF state1.last_cart_abandoned_age # NoAge /\ ~in_cooldown
                  THEN [state1 EXCEPT !.last_cart_abandoned_age = NoAge]
                  ELSE state1
        moved == [state2 EXCEPT !.is_moved = TRUE, !.was_ever_moved = TRUE,
                                !.moved_age = 0, !.behavioral_state = "MOVED"]
        returned == [state1 EXCEPT !.is_moved = FALSE, !.was_ever_moved = FALSE,
                                   !.moved_age = NoAge,
                                   !.last_cart_abandoned_age = 0,
                                   !.behavioral_state = "PRESENT"]
        Done(st, evs) ==
          [m |-> [m EXCEPT !.object_states = Put(@, key, st),
                           !.pending_events = @ \o evs],
           state |-> st]
    IN IF ~state1.is_moved
       THEN IF in_stabilization THEN Done(state1, <<>>)
            ELSE IF Pinned(state1) THEN Done(state1, <<>>)
            ELSE IF in_cooldown THEN Done(state1, <<>>)
            ELSE IF _is_beyond_threshold(d.dx, d.dy)
                 THEN Done(moved, <<Event("MOVED", moved, view_angle, class_name, FALSE)>>)
                 ELSE Done(state2, <<>>)
       ELSE IF _is_within_threshold(d.dx, d.dy, TRUE)
            THEN Done(returned, <<Event("CART_ABANDONED", state1, view_angle, class_name, FALSE)>>)
            ELSE Done(state1, <<>>)

\* The events are handed out last first
get_pending_events_reversed(m) ==
  [m |-> [m EXCEPT !.pending_events = <<>>],
   events |-> [i \in 1..Len(m.pending_events) |->
                 m.pending_events[Len(m.pending_events) + 1 - i]]]

\* Returns [m, events]
get_pending_events(m) ==
  [m |-> [m EXCEPT !.pending_events = <<>>], events |-> m.pending_events]

\* ---------------------------------------------------- CART_ABANDONED timeout
_clear_atomic_state(m, key) ==
  LET os == IF Has(m.object_states, key)
            THEN Put(m.object_states, key,
                     [Get(m.object_states, key) EXCEPT
                        !.is_moved = FALSE,
                        !.moved_age = NoAge,
                        !.last_cart_abandoned_age = 0,
                        !.behavioral_state = "CART_ABANDONED"])
            ELSE m.object_states
      pp == IF Has(m.person_proximity, key)
            THEN Put(m.person_proximity, key,
                     [key |-> key, person_triggered |-> FALSE,
                      person_first_seen_age |-> NoAge])
            ELSE m.person_proximity
  IN [m EXCEPT !.object_states = os, !.person_proximity = pp]

\* Every moved object times out at once
MovedAtAll(state) == state.is_moved

\* The tests of the loop of check_cart_abandoned_timeouts on one object
TimedOut(state) ==
  /\ state.is_moved
  /\ state.behavioral_state \notin {"WINDOW_SHOPPED", "CART_ABANDONED", "PRODUCT_PURCHASED"}
  /\ state.moved_age # NoAge
  /\ state.moved_age >= CartAbandonedTimeout

RECURSIVE ClearAll(_, _)
ClearAll(m, keys) ==
  IF keys = <<>> THEN m ELSE ClearAll(_clear_atomic_state(m, Head(keys)), Tail(keys))

\* Returns [m, events]; the events are returned to the caller, not queued
check_cart_abandoned_timeouts(m) ==
  LET fired == SelectSeq(m.object_states, TimedOut)
      marked == [i \in 1..Len(m.object_states) |->
                   IF TimedOut(m.object_states[i])
                   THEN [m.object_states[i] EXCEPT !.behavioral_state = "CART_ABANDONED"]
                   ELSE m.object_states[i]]
      events == [i \in 1..Len(fired) |->
                   Event("CART_ABANDONED", fired[i], fired[i].key[1], fired[i].key[2], FALSE)]
  IN [m |-> ClearAll([m EXCEPT !.object_states = marked], Keys(fired)),
      events |-> events]

\* ------------------------------------------------------- person proximity
\* Any stay of the person counts
AnyDuration(person_duration) == TRUE

\* person_duration >= 4.0
LongEnough(person_duration) == person_duration >= PersonDwell

\* person_bbox is None or a bounding box.  Returns [m, changed]
update_person_proximity(m, view_angle, object_class, object_bbox, person_bbox) ==
  LET key == <<view_angle, object_class>>
      pp0 == IF Has(m.person_proximity, key) THEN m.person_proximity
             ELSE Append(m.person_proximity,
                         [key |-> key, person_triggered |-> FALSE,
                          person_first_seen_age |-> NoAge])
      prox_state == Get(pp0, key)
      was_triggered == prox_state.person_triggered
      m0 == [m EXCEPT !.person_proximity = pp0]
      SetProx(mm, trig, age) ==
        [mm EXCEPT !.person_proximity =
           Put(@, key, [key |-> key, person_triggered |-> trig,
                        person_first_seen_age |-> age])]
  IN IF person_bbox # None
     THEN IF ~was_triggered
          THEN [m |-> SetProx(m0, TRUE, 0), changed |-> TRUE]
          ELSE [m |-> m0, changed |-> FALSE]
     ELSE IF was_triggered
          THEN LET person_duration == prox_state.person_first_seen_age
                   left == SetProx(m0, FALSE, prox_state.person_first_seen_age)
               IN IF LongEnough(person_duration)
                  THEN IF Has(m0.object_states, key) /\ ~Get(m0.object_states, key).is_moved
                       THEN LET state == Get(m0.object_states, key)
                                shopped == [left EXCEPT
                                  !.pending_events =
                                     Append(@, Event("WINDOW_SHOPPED", state, view_angle,
                                                     object_class, FALSE)),
                                  !.object_states =
                                     Put(@, key, [state EXCEPT
                                                    !.behavioral_state = "WINDOW_SHOPPED"])]
                            IN [m |-> _clear_atomic_state(shopped, key), changed |-> TRUE]
                       ELSE [m |-> left, changed |-> FALSE]
                  ELSE [m |-> left, changed |-> TRUE]
          ELSE [m |-> m0, changed |-> FALSE]

\* --------------------------------------------------------------------- EXIT
\* The proximity entry is dropped before the key is looked up
ExitUnknownCleansUp(m, key) == [m |-> [m EXCEPT !.person_proximity = Del(@, key)], event |-> None]

\* if key not in self.object_states: return None
ExitUnknown(m, key) == [m |-> m, event |-> None]

\* PRODUCT_PURCHASED only for an object that was moved
handle_exit_only_moved(m, view_angle, class_name) ==
  LET key == <<view_angle, class_name>> IN
  IF ~Has(m.object_states, key) THEN [m |-> m, event |-> None]
  ELSE LET state == Get(m.object_states, key)
       IN [m |-> [m EXCEPT !.person_proximity = Del(@, key),
                           !.object_states = Del(@, key)],
           event |-> IF state.is_moved \/ state.was_ever_moved
                     THEN Event("PRODUCT_PURCHASED", state, view_angle, class_name, TRUE)
                     ELSE None]

\* Returns [m, event]; event is None when nothing is emitted
handle_exit_with_person(m, view_angle, class_name) ==
  LET key == <<view_angle, class_name>> IN
  IF ~Has(m.object_states, key) THEN ExitUnknown(m, key)
  ELSE LET state == Get(m.object_states, key)
           event == IF state.behavioral_state = "WINDOW_SHOPPED" THEN None
                    ELSE Event("PRODUCT_PURCHASED", state, view_angle, class_name,
                               state.is_moved \/ state.was_ever_moved)
       IN [m |-> [m EXCEPT !.person_proximity = Del(@, key),
                           !.object_states = Del(@, key)],
           event |-> event]


\* ============================================================================
\* ViewObjectTracker
\* ============================================================================

\* self.views
ConfiguredViews == {0}

\* det.get('depth_source', 'real'); the key may be missing from the detection
DepthSourceOf(det) == IF det.depth_source = "missing" THEN "real" ELSE det.depth_source

\* Keep only the best detection per class (highest confidence), in first-seen order
RECURSIVE BestPerClass(_, _)
BestPerClass(detections, class_detections) ==
  IF detections = <<>> THEN class_detections
  ELSE LET det == Head(detections)
           k == det.class_name
       IN BestPerClass(Tail(detections),
            IF ~Has(class_detections, k) \/ det.confidence > Get(class_detections, k).det.confidence
            THEN Put(class_detections, k, [key |-> k, det |-> det])
            ELSE class_detections)

\* A class is present from its first detection
NewTrackedStatePresent(det) ==
  [key |-> det.class_name,
   object_id |-> NoId,
   last_seen_age |-> 0,
   in_db |-> FALSE,
   is_present |-> TRUE,
   last_update_age |-> 0,
   best_confidence |-> det.confidence,
   last_known_position_3d |-> det.center_3d,
   last_bbox |-> det.bbox]

\* First time seeing this class at this view
NewTrackedState(det) ==
  [key |-> det.class_name,
   object_id |-> NoId,
   last_seen_age |-> 0,
   in_db |-> FALSE,
   is_present |-> FALSE,
   last_update_age |-> 0,
   best_confidence |-> det.confidence,
   last_known_position_3d |-> det.center_3d,
   last_bbox |-> det.bbox]

\* The detection as handed back to the caller, with the injected keys
Emitted(det, position, source, is_moved, behavioral_state) ==
  [class_name |-> det.class_name, confidence |-> det.confidence, bbox |-> det.bbox,
   center_3d |-> det.center_3d, last_known_position_3d |-> position,
   depth_source |-> source, is_moved |-> is_moved, behavioral_state |-> behavioral_state]

Triple(det, action, object_id) == [det |-> det, action |-> action, object_id |-> object_id]

needs_time_update(state) == state.last_update_age >= UpdateInterval

needs_quality_update(state, current_confidence) ==
  current_confidence - state.best_confidence >= QualityThreshold

\* A class that is absent is taken for one that was never committed
BranchAddsAbsent(state) ==
  IF ~state.in_db \/ ~state.is_present THEN "add_to_db" ELSE "refresh"

\* The if / elif / else over a class seen before at this view
Branch(state) ==
  IF ~state.in_db THEN "add_to_db"
  ELSE IF ~state.is_present THEN "update_present"
  ELSE "refresh"

\* Each trigger resets its own baseline only
RefreshOwnBaseline(t, class_name, det, state, depth_source, up) ==
  LET current_confidence == det.confidence
      out == Emitted(det, state.last_known_position_3d, depth_source,
                     IF up.state # None THEN up.state.is_moved ELSE Unset,
                     IF up.state # None THEN up.state.behavioral_state ELSE Unset)
  IN IF needs_time_update(state) \/ needs_quality_update(state, current_confidence)
     THEN [t EXCEPT
            !.view_state = Put(@, class_name,
                [state EXCEPT
                   !.last_update_age = IF needs_time_update(state) THEN 0 ELSE @,
                   !.best_confidence = IF needs_quality_update(state, current_confidence)
                                       THEN Max(@, current_confidence) ELSE @]),
            !.m = up.m,
            !.actions = Append(@, Triple(out, "update_data", state.object_id))]
     ELSE [t EXCEPT
            !.view_state = Put(@, class_name, state),
            !.m = up.m,
            !.actions = Append(@, Triple(out, "skip", state.object_id))]

\* The else branch: the class is committed and present.  up is what update_position
\* returned, [m, state], with state None when the call was not made.
Refresh(t, class_name, det, state, depth_source, up) ==
  LET current_confidence == det.confidence
      out == Emitted(det, state.last_known_position_3d, depth_source,
                     IF up.state # None THEN up.state.is_moved ELSE Unset,
                     IF up.state # None THEN up.state.behavioral_state ELSE Unset)
  IN IF needs_time_update(state) \/ needs_quality_update(state, current_confidence)
     THEN [t EXCEPT
            !.view_state = Put(@, class_name,
                [state EXCEPT !.last_update_age = 0,
                              !.best_confidence = Max(@, current_confidence)]),
            !.m = up.m,
            !.actions = Append(@, Triple(out, "update_data", state.object_id))]
     ELSE [t EXCEPT
            !.view_state = Put(@, class_name, state),
            !.m = up.m,
            !.actions = Append(@, Triple(out, "skip", state.object_id))]

\* One iteration of the loop over class_detections.
\* t = [view_state, m, actions, pending_absent_marks, pending_behavioral_events, raised]
ProcessDetection(t, current_view, det) ==
  LET class_name == det.class_name
      center_3d == det.center_3d
      bbox == det.bbox
      depth_source == DepthSourceOf(det)
  IN
  IF ~Has(t.view_state, class_name)
  THEN [t EXCEPT
         !.view_state = Append(@, NewTrackedState(det)),
         !.actions = Append(@, Triple(
            Emitted(det, center_3d,
                    IF center_3d # None THEN depth_source ELSE "unknown", Unset, Unset),
            "add_to_db", NoId))]
  ELSE
    LET state0 == Get(t.view_state, class_name)
        state == [state0 EXCEPT
                    !.last_seen_age = 0,
                    !.last_known_position_3d = IF center_3d # None THEN center_3d ELSE @,
                    !.last_bbox = IF bbox # None THEN bbox ELSE @]
        out == Emitted(det, state.last_known_position_3d, depth_source, Unset, Unset)
    IN
    IF Branch(state) = "add_to_db"
    THEN [t EXCEPT !.view_state = Put(@, class_name, state),
                   !.actions = Append(@, Triple(out, "add_to_db", NoId))]
    ELSE IF Branch(state) = "update_present"
    THEN [t EXCEPT
           !.view_state = Put(@, class_name,
                              [state EXCEPT !.is_present = TRUE,
                                            !.last_update_age = 0,
                                            !.best_confidence = det.confidence]),
           !.m = IF bbox # None /\ state.object_id # NoId
                 THEN register_object(@, current_view, class_name, state.object_id, bbox)
                 ELSE @,
           !.actions = Append(@, Triple(out, "update_present", state.object_id))]
    ELSE Refresh(t, class_name, det, state, depth_source,
                 IF bbox # None /\ state.object_id # NoId /\ depth_source = "real"
                 THEN update_position(t.m, current_view, class_name, bbox)
                 ELSE [m |-> t.m, state |-> None])

RECURSIVE ProcessDetections(_, _, _)
ProcessDetections(t, current_view, class_detections) ==
  IF class_detections = <<>> THEN t
  ELSE ProcessDetections(ProcessDetection(t, current_view, Head(class_detections).det),
                         current_view, Tail(class_detections))

\* self.movement_detector.handle_exit(...): the attribute lookup on the detector
\* raises AttributeError when the class does not define the method.
RaisesAttributeError(method) == method \notin MovementDetectorMethods

\* The loop over list(view_state.keys()): classes seen before but not detected now.
RECURSIVE CheckDisappeared(_, _, _, _)
CheckDisappeared(t, current_view, class_names, detected_classes) ==
  IF class_names = <<>> \/ t.raised THEN t
  ELSE
    LET class_name == Head(class_names)
        state == Get(t.view_state, class_name)
        rest == Tail(class_names)
    IN
    IF class_name \in detected_classes
       \/ ~(state.last_seen_age > DisappearTimeout /\ state.is_present)
    THEN CheckDisappeared(t, current_view, rest, detected_classes)
    ELSE
      LET absent == [t EXCEPT !.view_state =
                       Put(@, class_name, [state EXCEPT !.is_present = FALSE])]
      IN IF ~(state.in_db /\ state.object_id # NoId)
         THEN CheckDisappeared(absent, current_view, rest, detected_classes)
         ELSE IF RaisesAttributeError("handle_exit")
         THEN [absent EXCEPT !.raised = TRUE]
         ELSE
           LET ex == handle_exit_with_person(absent.m, current_view, class_name)
               after == [absent EXCEPT
                  !.m = ex.m,
                  !.pending_behavioral_events =
                     IF ex.event # None THEN Append(@, ex.event) ELSE @,
                  !.pending_absent_marks =
                     Append(@, <<current_view, class_name, state.object_id>>)]
           IN CheckDisappeared(after, current_view, rest, detected_classes)

\* The locals of update at the start of the loop over class_detections
LoopState(T, current_view) ==
  [view_state |-> T.view_states[current_view], m |-> T.m, actions |-> <<>>,
   pending_absent_marks |-> T.pending_absent_marks,
   pending_behavioral_events |-> T.pending_behavioral_events,
   raised |-> FALSE]

\* The disappearance loop over the keys of the view after the detections
Disappeared(t, current_view, detected_classes) ==
  CheckDisappeared(t, current_view, Keys(t.view_state), detected_classes)

\* The tracked states of the current view are stored at every view
UpdateReturnEveryView(T, current_view, t) ==
  [T |-> [view_states |-> [v \in DOMAIN T.view_states |-> t.view_state],
          pending_absent_marks |-> t.pending_absent_marks,
          pending_behavioral_events |-> t.pending_behavioral_events,
          m |-> t.m],
   actions |-> IF t.raised THEN <<>> ELSE t.actions,
   raised |-> t.raised]

\* What update leaves behind and hands back, from the locals t at its end
UpdateReturn(T, current_view, t) ==
  [T |-> [view_states |-> [T.view_states EXCEPT ![current_view] = t.view_state],
          pending_absent_marks |-> t.pending_absent_marks,
          pending_behavioral_events |-> t.pending_behavioral_events,
          m |-> t.m],
   actions |-> IF t.raised THEN <<>> ELSE t.actions,
   raised |-> t.raised]

\* The tracker and its detector as one value
\* T = [view_states, pending_absent_marks, pending_behavioral_events, m]
\* Returns [T, actions, raised]; when raised, no list is returned to the caller.
\* update_view is the body of update after the check of current_view.
update_view(T, current_view, detections) ==
  UpdateReturn(T, current_view,
    Disappeared(
      ProcessDetections(LoopState(T, current_view), current_view,
                        BestPerClass(detections, <<>>)),
      current_view,
      Range(Keys(BestPerClass(detections, <<>>)))))

\* An unknown view is processed as one of the configured views
updateSnapsView(T, current_view, detections) ==
  update_view(T, IF current_view \in DOMAIN T.view_states THEN current_view
                 ELSE CHOOSE v \in DOMAIN T.view_states : TRUE, detections)

update(T, current_view, detections) ==
  IF current_view \notin DOMAIN T.view_states
  THEN [T |-> T, actions |-> <<>>, raised |-> FALSE]
  ELSE update_view(T, current_view, detections)

\* The bbox of the commit is ignored: home is always the last detected bbox
mark_added_last_bbox(T, view_angle, class_name, object_id, bbox) ==
  IF view_angle \in DOMAIN T.view_states /\ Has(T.view_states[view_angle], class_name)
  THEN LET state == Get(T.view_states[view_angle], class_name)
       IN [T EXCEPT
            !.view_states[view_angle] =
               Put(@, class_name, [state EXCEPT !.in_db = TRUE,
                                                !.object_id = object_id,
                                                !.is_present = TRUE]),
            !.m = IF state.last_bbox # None
                  THEN register_object(@, view_angle, class_name, object_id, state.last_bbox)
                  ELSE @]
  ELSE T

\* bbox may be None: home_bbox = bbox or state.get('last_bbox')
mark_added_to_db(T, view_angle, class_name, object_id, bbox) ==
  IF view_angle \in DOMAIN T.view_states /\ Has(T.view_states[view_angle], class_name)
  THEN LET state == Get(T.view_states[view_angle], class_name)
           home_bbox == IF bbox # None THEN bbox ELSE state.last_bbox
       IN [T EXCEPT
            !.view_states[view_angle] =
               Put(@, class_name, [state EXCEPT !.in_db = TRUE,
                                                !.object_id = object_id,
                                                !.is_present = TRUE]),
            !.m = IF home_bbox # None
                  THEN register_object(@, view_angle, class_name, object_id, home_bbox)
                  ELSE @]
  ELSE T

\* self.view_states[view_angle] = {}, for a configured view
clear_view(T, view_angle) ==
  IF view_angle \in DOMAIN T.view_states
  THEN [T EXCEPT !.view_states[view_angle] = <<>>]
  ELSE T

\* for view in self.views: self.view_states[view] = {}
reset_all(T) == [T EXCEPT !.view_states = [v \in DOMAIN T.view_states |-> <<>>]]

\* Returns [T, pending]
get_pending_absent_marks(T) ==
  [T |-> [T EXCEPT !.pending_absent_marks = <<>>], pending |-> T.pending_absent_marks]

\* Returns [T, all_events]
get_pending_behavioral_events(T) ==
  LET g == get_pending_events(T.m)
  IN [T |-> [T EXCEPT !.m = g.m, !.pending_behavioral_events = <<>>],
      all_events |-> T.pending_behavioral_events \o g.events]


\* ============================================================================
\* The state machine
\* ============================================================================

Detector == [object_states |-> object_states, pending_events |-> pending_events,
             person_proximity |-> person_proximity]

Tracker == [view_states |-> view_states,
            pending_absent_marks |-> pending_absent_marks,
            pending_behavioral_events |-> pending_behavioral_events,
            m |-> Detector]

SetDetector(m) ==
  /\ object_states' = m.object_states
  /\ pending_events' = m.pending_events
  /\ person_proximity' = m.person_proximity

SetTracker(T) ==
  /\ view_states' = T.view_states
  /\ pending_absent_marks' = T.pending_absent_marks
  /\ pending_behavioral_events' = T.pending_behavioral_events
  /\ SetDetector(T.m)

TrackerUnchanged ==
  UNCHANGED <<view_states, pending_absent_marks, pending_behavioral_events, emission_order>>

Call(op, args, raised, result) == [op |-> op, args |-> args, raised |-> raised, result |-> result]

\* ------------------------------------------------------------------- inputs
Classes == {"cup", "laptop"}

InvalidView == 45

ViewInputs == ConfiguredViews \cup {InvalidView}

\* The identifier storage assigns to a class, one per class
ObjectIdOf(class_name) == IF class_name = "cup" THEN 1 ELSE 2

HomeBBox == <<500, 300, 100, 200>>

Position == <<100, 50, 1200>>

Detection(class_name, confidence, bbox, center_3d, depth_source) ==
  [class_name |-> class_name, confidence |-> confidence, bbox |-> bbox,
   center_3d |-> center_3d, depth_source |-> depth_source]

Confidences == {70, 85}

TrackerDetections ==
  {Detection("cup", q, HomeBBox, Position, "real") : q \in Confidences}
  \cup {Detection("laptop", 70, HomeBBox, Position, "missing")}

SeqsUpTo(S, n) == UNION {[1..k -> S] : k \in 0..n}

\* RemoteGroundingDinoDetector.__init__, with the capture loop outside a call
InitRemote ==
  /\ pending = FALSE
  /\ new_results_ready = FALSE
  /\ latest_detections = <<>>
  /\ latest_error = NoError
  /\ threads = {}
  /\ capture = [pc |-> "idle", frame |-> 0, is_new |-> FALSE, detections |-> <<>>,
                error |-> NoError, consumed |-> NoResult]
  /\ frames = 0
  /\ flagged_by = NoResult
  /\ unsurfaced = FALSE

\* --------------------------------------------------------------------- Init
Init ==
  /\ view_states = [v \in ConfiguredViews |-> <<>>]
  /\ pending_absent_marks = <<>>
  /\ pending_behavioral_events = <<>>
  /\ object_states = <<>>
  /\ pending_events = <<>>
  /\ person_proximity = <<>>
  /\ updates = 0
  /\ lifetime_events = {}
  /\ emission_order = <<>>
  /\ ret = Call("init", <<>>, FALSE, <<>>)
  /\ InitRemote

\* ------------------------------------------------------------------ actions
\* What a list holds after its first n items
After(events, n) == SubSeq(events, n + 1, Len(events))

\* r is what update returned; the detection loop runs before the disappearance loop
UpdateReturns(current_view, detections, r) ==
  /\ SetTracker(r.T)
  /\ emission_order' = emission_order \o After(r.T.m.pending_events, Len(pending_events))
                         \o After(r.T.pending_behavioral_events, Len(pending_behavioral_events))
  /\ UNCHANGED <<updates, lifetime_events, remoteVars>>
  /\ ret' = Call("update", [view |-> current_view, detections |-> detections],
                 r.raised, r.actions)

Update(current_view, detections) ==
  UpdateReturns(current_view, detections, update(Tracker, current_view, detections))

MarkAddedToDb(view_angle, class_name, object_id, bbox) ==
  /\ SetTracker(mark_added_to_db(Tracker, view_angle, class_name, object_id, bbox))
  /\ UNCHANGED <<updates, lifetime_events, emission_order, remoteVars>>
  /\ ret' = Call("mark_added_to_db",
                 [view |-> view_angle, class_name |-> class_name,
                  object_id |-> object_id, bbox |-> bbox], FALSE, <<>>)

GetPendingAbsentMarks ==
  LET r == get_pending_absent_marks(Tracker)
  IN /\ SetTracker(r.T)
     /\ UNCHANGED <<updates, lifetime_events, emission_order, remoteVars>>
     /\ ret' = Call("get_pending_absent_marks", <<>>, FALSE, r.pending)

GetPendingBehavioralEvents ==
  LET r == get_pending_behavioral_events(Tracker)
  IN /\ SetTracker(r.T)
     /\ emission_order' = <<>>
     /\ UNCHANGED <<updates, lifetime_events, remoteVars>>
     /\ ret' = Call("get_pending_behavioral_events", <<>>, FALSE, r.all_events)

\* One second passes: every stored timestamp is one second older.
AgeTracked(state) ==
  [state EXCEPT !.last_seen_age = Older(@, DisappearTimeout + 1 + Slack),
                !.last_update_age = Older(@, UpdateInterval + Slack)]

AgeMovement(state) ==
  [state EXCEPT !.first_seen_age = Older(@, StabilizationTime + Slack),
                !.moved_age = Older(@, CartAbandonedTimeout + Slack),
                !.last_cart_abandoned_age = Older(@, CartAbandonedCooldown + Slack)]

AgeProximity(prox_state) ==
  [prox_state EXCEPT !.person_first_seen_age = Older(@, PersonDwell + Slack)]

Tick ==
  /\ view_states' = [v \in DOMAIN view_states |->
                       [i \in 1..Len(view_states[v]) |-> AgeTracked(view_states[v][i])]]
  /\ object_states' = [i \in 1..Len(object_states) |-> AgeMovement(object_states[i])]
  /\ person_proximity' = [i \in 1..Len(person_proximity) |-> AgeProximity(person_proximity[i])]
  /\ UNCHANGED <<pending_absent_marks, pending_behavioral_events, pending_events, updates,
               lifetime_events, emission_order, remoteVars>>
  /\ ret' = Call("tick", <<>>, FALSE, <<>>)

\* The tracker driven through its in-process interface
Next ==
  \/ \E v \in ConfiguredViews, ds \in SeqsUpTo(TrackerDetections, MaxDets) : Update(v, ds)
  \/ \E ds \in SeqsUpTo({Detection("cup", 70, HomeBBox, Position, "real")}, 1) :
       Update(InvalidView, ds)
  \/ \E v \in ViewInputs, c \in Classes : MarkAddedToDb(v, c, ObjectIdOf(c), None)
  \/ GetPendingAbsentMarks
  \/ GetPendingBehavioralEvents
  \/ Tick

Spec == Init /\ [][Next]_vars


\* ----------------------------------------------- the detector driven directly
FarBBox == <<800, 300, 100, 200>>

\* Center at (560, 410): 10 px from home on each axis
NearBBox == <<510, 310, 100, 200>>

PersonBBox == <<900, 100, 300, 800>>

DetectorKey == <<0, "cup">>

\* The types of the events of a list after its first n
Types(events, n) == {events[i].type : i \in (n + 1)..Len(events)}

RegisterObject(view_angle, class_name, object_id, bbox) ==
  /\ SetDetector(register_object(Detector, view_angle, class_name, object_id, bbox))
  /\ updates' = 0
  /\ lifetime_events' = {}
  /\ TrackerUnchanged
  /\ UNCHANGED remoteVars
  /\ ret' = Call("register_object", bbox, FALSE, <<>>)

UpdatePosition(view_angle, class_name, bbox) ==
  LET r == update_position(Detector, view_angle, class_name, bbox)
  IN /\ updates < MaxUpdates
     /\ Len(pending_events) < MaxPending
     /\ SetDetector(r.m)
     /\ updates' = updates + 1
     /\ lifetime_events' = lifetime_events \cup Types(r.m.pending_events, Len(pending_events))
     /\ TrackerUnchanged
     /\ UNCHANGED remoteVars
     /\ ret' = Call("update_position", bbox, FALSE,
                    SubSeq(r.m.pending_events, Len(pending_events) + 1,
                           Len(r.m.pending_events)))

CheckCartAbandonedTimeouts ==
  LET r == check_cart_abandoned_timeouts(Detector)
  IN /\ SetDetector(r.m)
     /\ TrackerUnchanged
     /\ UNCHANGED remoteVars
     /\ UNCHANGED updates
     /\ lifetime_events' = lifetime_events \cup Types(r.events, 0)
                              \cup (IF r.events # <<>> THEN {"TIMEOUT"} ELSE {})
     /\ ret' = Call("check_cart_abandoned_timeouts", <<>>, FALSE, r.events)

UpdatePersonProximity(view_angle, object_class, person_bbox) ==
  LET r == update_person_proximity(Detector, view_angle, object_class, HomeBBox, person_bbox)
  IN /\ Len(pending_events) < MaxPending
     /\ SetDetector(r.m)
     /\ TrackerUnchanged
     /\ UNCHANGED remoteVars
     /\ UNCHANGED updates
     /\ lifetime_events' = lifetime_events \cup Types(r.m.pending_events, Len(pending_events))
     /\ ret' = Call("update_person_proximity", person_bbox, FALSE,
                    SubSeq(r.m.pending_events, Len(pending_events) + 1,
                           Len(r.m.pending_events)))

HandleExitWithPerson(view_angle, class_name) ==
  LET r == handle_exit_with_person(Detector, view_angle, class_name)
  IN /\ SetDetector(r.m)
     /\ TrackerUnchanged
     /\ UNCHANGED remoteVars
     /\ UNCHANGED updates
     /\ lifetime_events' = lifetime_events \cup (IF r.event = None THEN {} ELSE {r.event.type})
     /\ ret' = Call("handle_exit_with_person", <<>>, FALSE,
                    IF r.event = None THEN <<>> ELSE <<r.event>>)

GetPendingEvents ==
  LET r == get_pending_events(Detector)
  IN /\ SetDetector(r.m)
     /\ TrackerUnchanged
     /\ UNCHANGED remoteVars
     /\ UNCHANGED <<updates, lifetime_events>>
     /\ ret' = Call("get_pending_events", <<>>, FALSE, r.events)

NextMD ==
  \/ RegisterObject(DetectorKey[1], DetectorKey[2], 1, HomeBBox)
  \/ \E b \in {HomeBBox, NearBBox, FarBBox} : UpdatePosition(DetectorKey[1], DetectorKey[2], b)
  \/ CheckCartAbandonedTimeouts
  \/ \E p \in {None, PersonBBox} : UpdatePersonProximity(DetectorKey[1], DetectorKey[2], p)
  \/ HandleExitWithPerson(DetectorKey[1], DetectorKey[2])
  \/ GetPendingEvents
  \/ Tick

SpecMD == Init /\ [][NextMD]_vars


\* ----------------------------- the detector fed with an object that swings
\* Center at (150, 400), on the other side of home from FarBBox
LeftBBox == <<100, 300, 100, 200>>

NextSwing ==
  \/ RegisterObject(DetectorKey[1], DetectorKey[2], 1, HomeBBox)
  \/ \E b \in {FarBBox, LeftBBox} : UpdatePosition(DetectorKey[1], DetectorKey[2], b)
  \/ GetPendingEvents
  \/ Tick

SpecSwing == Init /\ [][NextSwing]_vars

\* ----------------------- the tracker fed with an object that moves and returns
OrderDetections ==
  {Detection("cup", 70, HomeBBox, Position, "real"),
   Detection("cup", 70, FarBBox, Position, "real")}

\* One frame of view 0; the frames of a run are counted in updates
OrderUpdateReturns(detections, r) ==
  /\ updates <= MaxUpdates
  /\ SetTracker(r.T)
  /\ emission_order' = emission_order \o After(r.T.m.pending_events, Len(pending_events))
                         \o After(r.T.pending_behavioral_events, Len(pending_behavioral_events))
  /\ updates' = updates + 1
  /\ UNCHANGED <<lifetime_events, remoteVars>>
  /\ ret' = Call("update", [view |-> 0, detections |-> detections], r.raised, r.actions)

OrderUpdate(detections) ==
  OrderUpdateReturns(detections, update(Tracker, 0, detections))

NextOrder ==
  \/ \E ds \in SeqsUpTo(OrderDetections, 1) : OrderUpdate(ds)
  \/ MarkAddedToDb(0, "cup", ObjectIdOf("cup"), None)
  \/ GetPendingBehavioralEvents
  \/ Tick

SpecOrder == Init /\ [][NextOrder]_vars

\* --------------------------------------- the tracker cleared while it tracks
ClearView(view_angle) ==
  /\ SetTracker(clear_view(Tracker, view_angle))
  /\ UNCHANGED <<updates, lifetime_events, emission_order, remoteVars>>
  /\ ret' = Call("clear_view", [view |-> view_angle], FALSE, <<>>)

ResetAll ==
  /\ SetTracker(reset_all(Tracker))
  /\ UNCHANGED <<updates, lifetime_events, emission_order, remoteVars>>
  /\ ret' = Call("reset_all", <<>>, FALSE, <<>>)

NextClear ==
  \/ \E ds \in SeqsUpTo(TrackerDetections, MaxDets) : Update(0, ds)
  \/ \E c \in Classes : MarkAddedToDb(0, c, ObjectIdOf(c), None)
  \/ \E v \in ViewInputs : ClearView(v)
  \/ ResetAll
  \/ Tick

SpecClear == Init /\ [][NextClear]_vars

\* ------------------ the tracker and the detector called for keys they lack
NextSoft ==
  \/ \E ds \in SeqsUpTo({Detection("cup", 70, HomeBBox, Position, "real")}, 1) : Update(0, ds)
  \/ \E v \in ViewInputs, c \in Classes, b \in {None, HomeBBox} :
       MarkAddedToDb(v, c, ObjectIdOf(c), b)
  \/ UpdatePosition(DetectorKey[1], DetectorKey[2], HomeBBox)
  \/ \E p \in {None, PersonBBox} : UpdatePersonProximity(DetectorKey[1], DetectorKey[2], p)
  \/ HandleExitWithPerson(DetectorKey[1], DetectorKey[2])
  \/ Tick

SpecSoft == Init /\ [][NextSoft]_vars

\* ------------------------------- the two threshold tests on one displacement
\* Percentages handed to set_threshold
ThresholdPercents == {0 - 5, 0, 5, 10, 100, 150}

\* Displacements in pixels, around the thresholds and their halves
DisplacementsPx == {0 - 10, 0, 54, 55, 96, 97, 108, 109, 192, 193, 1080, 1081, 1920, 1921}

\* set_threshold(percent), then both tests on the displacement (dx, dy)
Thresholds(percent, dx, dy) ==
  /\ ret' = Call("thresholds",
                 [percent |-> set_threshold(percent), dx |-> dx, dy |-> dy], FALSE,
                 [beyond |-> BeyondAt(set_threshold(percent), dx, dy),
                  within |-> WithinAt(set_threshold(percent), dx, dy, TRUE)])
  /\ UNCHANGED <<object_states, pending_events, person_proximity, updates, lifetime_events>>
  /\ TrackerUnchanged
  /\ UNCHANGED remoteVars

NextThresholds ==
  \E percent \in ThresholdPercents, x \in DisplacementsPx, y \in DisplacementsPx :
    Thresholds(percent, x * PosScale, y * PosScale)

SpecThresholds == Init /\ [][NextThresholds]_vars

\* ------------------------------------------ the tracker fed with one class
\* Detections of one class that differ in what they carry: a real-depth
\* detection at home, an estimated-depth detection elsewhere, and a detection
\* without a bounding box.  The commit comes with a bounding box or without.
ViewDetections ==
  {Detection("cup", 70, HomeBBox, Position, "real"),
   Detection("cup", 70, FarBBox, Position, "estimated"),
   Detection("cup", 70, None, Position, "real")}

NextCommit ==
  \/ \E v \in ConfiguredViews, ds \in SeqsUpTo(ViewDetections, 1) :
       Len(pending_events) < MaxPending /\ Update(v, ds)
  \/ \E v \in ConfiguredViews, b \in {None, FarBBox} :
       MarkAddedToDb(v, "cup", ObjectIdOf("cup"), b)
  \/ GetPendingBehavioralEvents
  \/ Tick

SpecCommit == Init /\ [][NextCommit]_vars

\* ------------------------------------- the tracker with two views, one class
TestViews == {0, 90}

\* The identifier storage assigns at a view, one per (view, class)
ObjectIdAt(view_angle) == IF view_angle = 0 THEN 1 ELSE 3

InitViews ==
  /\ view_states = [v \in TestViews |-> <<>>]
  /\ pending_absent_marks = <<>>
  /\ pending_behavioral_events = <<>>
  /\ object_states = <<>>
  /\ pending_events = <<>>
  /\ person_proximity = <<>>
  /\ updates = 0
  /\ lifetime_events = {}
  /\ emission_order = <<>>
  /\ ret = Call("init", <<>>, FALSE, <<>>)
  /\ InitRemote

NextViews ==
  \/ \E v \in TestViews,
         ds \in SeqsUpTo({Detection("cup", 70, HomeBBox, Position, "real")}, 1) :
       Update(v, ds)
  \/ \E v \in TestViews : MarkAddedToDb(v, "cup", ObjectIdAt(v), None)
  \/ GetPendingAbsentMarks
  \/ Tick

SpecViews == InitViews /\ [][NextViews]_vars


\* --------------------- the tracker fed with duplicate detections of a class
Position2 == <<120, 50, 1200>>

\* Two detections of a class with the same confidence, told apart by their
\* position, one with a higher confidence, and a detection of another class
DuplicateDetections ==
  {Detection("cup", 70, HomeBBox, Position, "real"),
   Detection("cup", 70, HomeBBox, Position2, "real"),
   Detection("cup", 85, HomeBBox, Position, "real"),
   Detection("laptop", 70, HomeBBox, Position, "real")}

NextDedup ==
  \/ \E v \in ConfiguredViews, ds \in SeqsUpTo(DuplicateDetections, MaxDups) : Update(v, ds)
  \/ \E v \in ConfiguredViews : MarkAddedToDb(v, "cup", ObjectIdOf("cup"), None)
  \/ Tick

SpecDedup == Init /\ [][NextDedup]_vars

\* ------------------- the tracker fed with one class at several confidences
\* Real-depth detections at home with three confidences, the middle one less
\* than quality_threshold above the lowest, and an estimated-depth detection
\* elsewhere
RefreshDetections ==
  {Detection("cup", q, HomeBBox, Position, "real") : q \in {70, 80, 85}}
  \cup {Detection("cup", 70, FarBBox, Position, "estimated")}

NextRefresh ==
  \/ \E v \in ConfiguredViews, ds \in SeqsUpTo(RefreshDetections, 1) :
       Len(pending_events) < MaxPending /\ Update(v, ds)
  \/ \E v \in ConfiguredViews : MarkAddedToDb(v, "cup", ObjectIdOf("cup"), None)
  \/ GetPendingBehavioralEvents
  \/ Tick

SpecRefresh == Init /\ [][NextRefresh]_vars


\* ============================================================================
\* RemoteGroundingDinoDetector: the capture loop and the inference workers
\* ============================================================================
\* Each "with self.lock" block is one step.  The detections of an inference are
\* stood for by the frame they were computed from; the depth that
\* detect_with_depth adds to the returned detections is left out.

\* What the request of a worker comes to: a response with a "detections" key, a
\* response without it, or no usable response (status, empty body, invalid
\* JSON, timeout, any other exception)
Outcomes == {"detections", "no_detections_key", "failed"}

\* The detections found in a frame
Result(frame) == <<frame>>

\* No test of pending: every frame starts a worker
_process_frame_async_always(is_pending) == [pending |-> TRUE, start |-> TRUE]

\* The locked block of _process_frame_async: the frame is skipped when pending
_process_frame_async(is_pending) ==
  IF is_pending THEN [pending |-> TRUE, start |-> FALSE]
  ELSE [pending |-> TRUE, start |-> TRUE]

\* The cached detections are not handed out
_get_latest_detections_empty(detections, error) == [detections |-> <<>>, error |-> error]

\* return self.latest_detections.copy(), self.latest_error
_get_latest_detections(detections, error) == [detections |-> detections, error |-> error]

\* if error: return [], is_new; else the detections
Returned(detections, error) == IF error # NoError THEN <<>> ELSE detections


RemoteUnchanged == UNCHANGED <<view_states, pending_absent_marks, pending_behavioral_events,
                               object_states, pending_events, person_proximity,
                               updates, lifetime_events, emission_order>>

\* detect_with_depth is called with the next frame: _process_frame_async, locked block
ProcessFrameAsync ==
  /\ capture.pc = "idle"
  /\ frames < MaxFrames
  /\ frames' = frames + 1
  /\ pending' = _process_frame_async(pending).pending
  /\ capture' = [capture EXCEPT
                   !.pc = IF _process_frame_async(pending).start THEN "start" ELSE "consume",
                   !.frame = frames + 1]
  /\ UNCHANGED <<new_results_ready, latest_detections, latest_error, threads, flagged_by,
                 unsurfaced, ret>>
  /\ RemoteUnchanged

\* self.thread = Thread(...); self.thread.start()
StartThread ==
  /\ capture.pc = "start"
  /\ threads' = threads \cup {[frame |-> capture.frame, pc |-> "request", outcome |-> Unset]}
  /\ capture' = [capture EXCEPT !.pc = "consume"]
  /\ UNCHANGED <<pending, new_results_ready, latest_detections, latest_error, frames,
                 flagged_by, unsurfaced, ret>>
  /\ RemoteUnchanged

\* is_new = self.new_results_ready; self.new_results_ready = False
ConsumeFlag ==
  /\ capture.pc = "consume"
  /\ capture' = [capture EXCEPT !.pc = "get", !.is_new = new_results_ready,
                                !.consumed = IF new_results_ready THEN flagged_by ELSE NoResult]
  /\ new_results_ready' = FALSE
  /\ UNCHANGED <<pending, latest_detections, latest_error, threads, frames, flagged_by,
                 unsurfaced, ret>>
  /\ RemoteUnchanged

\* _get_latest_detections
GetLatestDetections ==
  /\ capture.pc = "get"
  /\ capture' = [capture EXCEPT !.pc = "return", 
                   !.detections = _get_latest_detections(latest_detections, latest_error).detections,
                   !.error = _get_latest_detections(latest_detections, latest_error).error]
  /\ unsurfaced' = (unsurfaced /\ latest_error = NoError)
  /\ UNCHANGED <<pending, new_results_ready, latest_detections, latest_error, threads,
                 frames, flagged_by, ret>>
  /\ RemoteUnchanged

\* detect_with_depth returns (detections, is_new)
DetectReturns ==
  /\ capture.pc = "return"
  /\ ret' = Call("detect_with_depth", capture.frame, FALSE,
                 [detections |-> Returned(capture.detections, capture.error),
                  is_new |-> capture.is_new,
                  consumed |-> capture.consumed])
  /\ capture' = [pc |-> "idle", frame |-> 0, is_new |-> FALSE, detections |-> <<>>,
                 error |-> NoError, consumed |-> NoResult]
  /\ UNCHANGED <<pending, new_results_ready, latest_detections, latest_error, threads,
                 frames, flagged_by, unsurfaced>>
  /\ RemoteUnchanged

\* _detection_thread: the request is answered, or fails
Request(t, outcome) ==
  /\ t.pc = "request"
  /\ threads' = (threads \ {t}) \cup {[t EXCEPT !.pc = "store", !.outcome = outcome]}
  /\ UNCHANGED <<pending, new_results_ready, latest_detections, latest_error, capture,
                 frames, flagged_by, unsurfaced, ret>>
  /\ RemoteUnchanged

\* _detection_thread: the locked block that stores what the request came to
Store(t) ==
  /\ t.pc = "store"
  /\ latest_detections' = IF t.outcome = "detections" THEN Result(t.frame) ELSE <<>>
  /\ latest_error' = IF t.outcome = "detections" THEN NoError ELSE t.outcome
  /\ new_results_ready' = IF t.outcome = "failed" THEN new_results_ready ELSE TRUE
  /\ flagged_by' = IF t.outcome = "failed" THEN flagged_by
                    ELSE [frame |-> t.frame,
                          detections |-> IF t.outcome = "detections" THEN Result(t.frame)
                                         ELSE <<>>]
  /\ unsurfaced' = (t.outcome # "detections")
  /\ threads' = (threads \ {t}) \cup {[t EXCEPT !.pc = "finally"]}
  /\ UNCHANGED <<pending, capture, frames, ret>>
  /\ RemoteUnchanged

\* No finally block: pending is left as it is
_detection_thread_returns(is_pending) == is_pending

\* finally: with self.lock: self.pending = False
_detection_thread_finally(is_pending) == FALSE

\* _detection_thread: finally, self.pending = False, and the thread ends
Finally(t) ==
  /\ t.pc = "finally"
  /\ pending' = _detection_thread_finally(pending)
  /\ threads' = threads \ {t}
  /\ UNCHANGED <<new_results_ready, latest_detections, latest_error, capture, frames,
                 flagged_by, unsurfaced, ret>>
  /\ RemoteUnchanged

NextRemote ==
  \/ ProcessFrameAsync
  \/ StartThread
  \/ ConsumeFlag
  \/ GetLatestDetections
  \/ DetectReturns
  \/ \E t \in threads, outcome \in Outcomes : Request(t, outcome)
  \/ \E t \in threads : Store(t)
  \/ \E t \in threads : Finally(t)

SpecRemote == Init /\ [][NextRemote]_vars

\* A call of detect_with_depth runs to its return, a started thread runs, the
\* request comes back or fails (requests.post has timeout=10), and the locked
\* blocks are entered
SpecRemoteFair ==
  /\ SpecRemote
  /\ WF_vars(StartThread \/ ConsumeFlag \/ GetLatestDetections \/ DetectReturns)
  /\ WF_vars(\E t \in threads, outcome \in Outcomes : Request(t, outcome))
  /\ WF_vars(\E t \in threads : Store(t))
  /\ WF_vars(\E t \in threads : Finally(t))


\* ============================================================================
\* KinectCamera: depth estimation and the world frame
\* ============================================================================
\* Depths are fixed point, DepthScale units per millimetre.  The square root
\* is taken to the unit: Isqrt(n) is the largest r with r * r <= n.

\* CLASS_TYPICAL_DEPTHS, in millimetres; 0 for a name that is not a key
CLASS_TYPICAL_DEPTHS(name) ==
  IF name \in {"laptop", "laptop computer", "keyboard", "mechanical keyboard",
               "notebook", "book"} THEN 1200
  ELSE IF name \in {"mouse", "wireless mouse", "water bottle", "coffee mug"} THEN 1000
  ELSE IF name \in {"phone", "smartphone", "tablet", "headphones"} THEN 1100
  ELSE 0

GLOBAL_DEFAULT_DEPTH == 1200

reference_area == 30000

reference_depth == 1200

MinDepth == 500

MaxDepth == 3000

\* class_name.lower(), for the names that are given
Lower(name) == IF name = "Mouse" THEN "mouse" ELSE name

RECURSIVE IsqrtBetween(_, _, _)
\* lo * lo <= n < hi * hi
IsqrtBetween(n, lo, hi) ==
  IF hi - lo <= 1 THEN lo
  ELSE LET mid == (lo + hi) \div 2
       IN IF mid * mid <= n THEN IsqrtBetween(n, mid, hi) ELSE IsqrtBetween(n, lo, mid)

Isqrt(n) == IsqrtBetween(n, 0, 46340)

\* The size of the box is ignored: the ratio is 1
UnitRatio(bbox_area) == DepthScale

\* math.sqrt(reference_area / bbox_area), in units of 1 / DepthScale
SqrtRatio(bbox_area) == Isqrt((reference_area * DepthScale * DepthScale) \div bbox_area)

\* Priority 2: the estimate from the size of the bounding box
SizeEstimate(bbox_area) ==
  IF bbox_area > 0 THEN reference_depth * SqrtRatio(bbox_area)
  ELSE GLOBAL_DEFAULT_DEPTH * DepthScale

\* Priority 3: 0.7 * estimated_depth + 0.3 * class_depth for a known class
Blend(estimated_depth, class_name) ==
  IF class_name # "" /\ CLASS_TYPICAL_DEPTHS(Lower(class_name)) # 0
  THEN (7 * estimated_depth + 3 * CLASS_TYPICAL_DEPTHS(Lower(class_name)) * DepthScale) \div 10
  ELSE estimated_depth

\* No clamp
Unclamped(depth) == depth

\* max(500, min(3000, estimated_depth))
Clamp(depth) ==
  IF depth > MaxDepth * DepthScale THEN MaxDepth * DepthScale
  ELSE IF depth < MinDepth * DepthScale THEN MinDepth * DepthScale
  ELSE depth

\* last_known_depth is 0 for None and for 0, which the test takes alike
estimate_depth(bbox, class_name, last_known_depth) ==
  IF /\ last_known_depth # 0
     /\ MinDepth * DepthScale <= last_known_depth
     /\ last_known_depth <= MaxDepth * DepthScale
  THEN last_known_depth
  ELSE Clamp(Blend(SizeEstimate(bbox[3] * bbox[4]), class_name))

\* math.cos and math.sin of math.radians(degrees), for whole quarter turns; the
\* 6e-17 that the floating-point cosine of a quarter turn leaves is below the unit
Cos(degrees) == IF degrees = 0 THEN 1 ELSE 0

Sin(degrees) == IF degrees = 90 THEN 1 ELSE IF degrees = 0 - 90 THEN 0 - 1 ELSE 0

\* theta = radians(pan_angle - 90); rotation in the XZ plane
camera_to_world_coords(x_cam, y_cam, z_cam, pan_angle) ==
  <<x_cam * Cos(pan_angle - 90) - z_cam * Sin(pan_angle - 90),
    y_cam,
    x_cam * Sin(pan_angle - 90) + z_cam * Cos(pan_angle - 90)>>

\* ------------------------------------------------------------------- inputs
\* Widths and heights of bounding boxes: none, negative, small, the reference
\* box 150 x 200 and its halves, and boxes that fill much of the frame
BoxWidths == {0, 0 - 10, 1, 75, 150, 300, 1200}

BoxHeights == {0, 1, 100, 200, 800}

DepthClasses == {"", "cup", "laptop", "Mouse"}

\* Last known depths in millimetres: none, below, at and above the limits
LastKnownDepths == {0, 0 - 100, 499, 500, 1234, 3000, 3001}

PanAngles == {0, 90, 180}

CamCoords == {0 - 400, 0, 250}

CamDepths == {800, 1500}

KinectUnchanged ==
  UNCHANGED <<view_states, pending_absent_marks, pending_behavioral_events, object_states,
              pending_events, person_proximity, updates, lifetime_events, emission_order, remoteVars>>

EstimateDepth(bbox, class_name, last_known_depth) ==
  /\ ret' = Call("estimate_depth",
                 [bbox |-> bbox, class_name |-> class_name,
                  last_known_depth |-> last_known_depth],
                 FALSE, estimate_depth(bbox, class_name, last_known_depth))
  /\ KinectUnchanged

CameraToWorldCoords(x_cam, y_cam, z_cam, pan_angle) ==
  /\ ret' = Call("camera_to_world_coords",
                 [x_cam |-> x_cam, y_cam |-> y_cam, z_cam |-> z_cam, pan_angle |-> pan_angle],
                 FALSE, camera_to_world_coords(x_cam, y_cam, z_cam, pan_angle))
  /\ KinectUnchanged

NextKinect ==
  \/ \E w \in BoxWidths, h \in BoxHeights, c \in DepthClasses, d \in LastKnownDepths :
       EstimateDepth(<<0, 0, w, h>>, c, d * DepthScale)
  \/ \E x \in CamCoords, y \in CamCoords, z \in CamDepths, a \in PanAngles :
       CameraToWorldCoords(x, y, z, a)

SpecKinect == Init /\ [][NextKinect]_vars


\* ============================================================================
\* Properties
\* ============================================================================

DetectedClasses(detections) == {detections[i].class_name : i \in 1..Len(detections)}

\* The highest confidence among the detections of a class
BestConfidence(detections, c) ==
  LET qs == {detections[i].confidence : i \in {j \in 1..Len(detections) : detections[j].class_name = c}}
  IN CHOOSE q \in qs : \A r \in qs : r <= q

\* The returned list holds a triple for class c with this action and object id
Yields(result, c, action, object_id) ==
  \E i \in 1..Len(result) :
     /\ result[i].det.class_name = c
     /\ result[i].action = action
     /\ result[i].object_id = object_id

\* The step is a call update(v, detections) in which class c is detected
UpdateDetects(v, c) ==
  /\ ret'.op = "update"
  /\ ret'.args.view = v
  /\ c \in DetectedClasses(ret'.args.detections)

\* The step is a call update(v, detections) in which class c is not detected
UpdateOmits(v, c) ==
  /\ ret'.op = "update"
  /\ ret'.args.view = v
  /\ c \notin DetectedClasses(ret'.args.detections)

Committed(v, c) == Has(view_states[v], c) /\ Get(view_states[v], c).in_db

CountMarks(marks, v, c) ==
  Cardinality({i \in 1..Len(marks) : marks[i][1] = v /\ marks[i][2] = c})

CountEvents(events, v, c) ==
  Cardinality({i \in 1..Len(events) : events[i].view_angle = v /\ events[i].class_name = c})

\* C1: a class that is detected at a view while it is untracked or not yet
\* committed there yields add_to_db with object_id None, on the first and on
\* every later update until mark_added_to_db.
C1_RetryUntilCommitted ==
  [][\A v \in ConfiguredViews, c \in Classes :
       (UpdateDetects(v, c) /\ ~Committed(v, c))
       => Yields(ret'.result, c, "add_to_db", NoId)]_vars

\* C2: update never emits add_to_db for a class that is committed at the view,
\* and a view never holds two tracked states of one class.
C2_AddedAtMostOnce ==
  /\ \A v \in ConfiguredViews : \A i, j \in 1..Len(view_states[v]) :
        view_states[v][i].key = view_states[v][j].key => i = j
  /\ (ret.op = "update" /\ ret.args.view \in ConfiguredViews)
     => \A i \in 1..Len(ret.result) :
           ret.result[i].action = "add_to_db"
           => ~Committed(ret.args.view, ret.result[i].det.class_name)

\* An update has returned a triple for a class that is committed
C2_Witness ==
  /\ ret.op = "update"
  /\ ret.args.view \in ConfiguredViews
  /\ \E i \in 1..Len(ret.result) :
        /\ Committed(ret.args.view, ret.result[i].det.class_name)
        /\ ret.result[i].action \in {"skip", "update_data", "update_present"}
  /\ \E c \in Classes : Committed(ret.args.view, c) /\ ~Get(view_states[ret.args.view], c).is_present

\* C3: for a committed and present class, update yields update_data exactly when
\* the time since the last refresh is >= update_interval or the confidence is
\* >= quality_threshold above best_confidence, and skip otherwise, with the
\* committed object_id.
C3_RefreshDecision ==
  [][\A v \in ConfiguredViews, c \in Classes :
       (UpdateDetects(v, c) /\ Committed(v, c) /\ Get(view_states[v], c).is_present)
       => LET state == Get(view_states[v], c)
              q == BestConfidence(ret'.args.detections, c)
              expected == IF \/ state.last_update_age >= UpdateInterval
                             \/ q - state.best_confidence >= QualityThreshold
                          THEN "update_data" ELSE "skip"
          IN Yields(ret'.result, c, expected, state.object_id)]_vars

\* C4: for a committed, present class a detection >= 0.15 above best_confidence
\* before update_interval elapses yields update_data and resets best_confidence;
\* the same detection in the next frame yields skip.
C4_QualityUpdateOnce ==
  [][\A v \in ConfiguredViews, c \in Classes :
       (/\ UpdateDetects(v, c)
        /\ Committed(v, c)
        /\ Get(view_states[v], c).is_present
        /\ Get(view_states[v], c).last_update_age < UpdateInterval)
       => LET state == Get(view_states[v], c)
              q == BestConfidence(ret'.args.detections, c)
          IN /\ q - state.best_confidence >= QualityThreshold
                => /\ Yields(ret'.result, c, "update_data", state.object_id)
                   /\ Get(view_states'[v], c).best_confidence = q
             /\ (/\ ret.op = "update"
                 /\ ret.args.view = v
                 /\ Yields(ret.result, c, "update_data", state.object_id)
                 /\ c \in DetectedClasses(ret.args.detections)
                 /\ BestConfidence(ret.args.detections, c) = q)
                => Yields(ret'.result, c, "skip", state.object_id)]_vars

\* C5: the first update that omits a committed, present class more than
\* disappear_timeout after it was last seen marks it absent and queues exactly
\* one absent-mark and one EXIT event; later updates that omit it queue nothing.
C5_DisappearOnce ==
  [][\A v \in ConfiguredViews, c \in Classes :
       (UpdateOmits(v, c) /\ Committed(v, c))
       => LET state == Get(view_states[v], c)
              marks == CountMarks(pending_absent_marks', v, c) - CountMarks(pending_absent_marks, v, c)
              events == CountEvents(pending_behavioral_events', v, c)
                          - CountEvents(pending_behavioral_events, v, c)
          IN /\ (state.is_present /\ state.last_seen_age > DisappearTimeout)
                => /\ ~Get(view_states'[v], c).is_present
                   /\ marks = 1
                   /\ <<v, c, state.object_id>> \in Range(pending_absent_marks')
                   /\ events = 1
             /\ ~state.is_present => (marks = 0 /\ events = 0)]_vars

\* C6: every call of the tracker returns normally.
C6_NeverRaises == ~ret.raised

\* C7: update with a view outside the configured set returns an empty list,
\* raises nothing and leaves the tracker and the detector unchanged.
C7_InvalidViewNoOp ==
  [][(ret'.op = "update" /\ ret'.args.view \notin ConfiguredViews)
     => /\ ret'.result = <<>>
        /\ ~ret'.raised
        /\ UNCHANGED <<view_states, pending_absent_marks, pending_behavioral_events,
                       object_states, pending_events, person_proximity>>]_vars

\* update was called with an unknown view and detections while a committed,
\* present class is past the disappearance timeout
C7_Witness ==
  /\ ret.op = "update"
  /\ ret.args.view \notin ConfiguredViews
  /\ ret.args.detections # <<>>
  /\ \E v \in ConfiguredViews, c \in Classes :
        /\ Committed(v, c)
        /\ Get(view_states[v], c).is_present
        /\ Get(view_states[v], c).last_seen_age > DisappearTimeout

\* C8: a committed class that the timeout marked absent and that is detected
\* again at the view yields update_present with the object_id of its commit, and
\* is present again.
C8_ReappearSameId ==
  [][\A v \in ConfiguredViews, c \in Classes :
       (UpdateDetects(v, c) /\ Committed(v, c) /\ ~Get(view_states[v], c).is_present)
       => /\ Yields(ret'.result, c, "update_present", Get(view_states[v], c).object_id)
          /\ Get(view_states'[v], c).is_present]_vars

\* ------------------------------------------------------------ the detector
Registered == Has(object_states, DetectorKey)

BeyondPixels(dx, dy) ==
  \/ dx * 100 > FrameWidth * MovementThresholdPercent * PosScale
  \/ dy * 100 > FrameHeight * MovementThresholdPercent * PosScale

WithinHalfPixels(dx, dy) ==
  /\ dx * 200 <= FrameWidth * MovementThresholdPercent * PosScale
  /\ dy * 200 <= FrameHeight * MovementThresholdPercent * PosScale

\* Movement detection is not suppressed: past the stabilization window, not
\* pinned at CART_ABANDONED and not in the cooldown after a return
DetectionActive(state) ==
  /\ state.first_seen_age >= StabilizationTime
  /\ state.behavioral_state # "CART_ABANDONED"
  /\ \/ state.last_cart_abandoned_age = NoAge
     \/ state.last_cart_abandoned_age >= CartAbandonedCooldown

EventTypes(events) == [i \in 1..Len(events) |-> events[i].type]

\* The claim about one update_position call, with the condition under which a
\* displacement beyond the threshold counts
MovedAndReturned(counts(_)) ==
  (ret'.op = "update_position" /\ Registered)
  => LET pre == Get(object_states, DetectorKey)
         post == Get(object_states', DetectorKey)
         dx == Abs(post.current_x - post.home_x)
         dy == Abs(post.current_y - post.home_y)
         emitted == EventTypes(ret'.result)
     IN /\ (BeyondPixels(dx, dy) /\ counts(pre))
           => /\ post.is_moved
              /\ emitted = IF pre.is_moved THEN <<>> ELSE <<"MOVED">>
        /\ (pre.is_moved /\ post.is_moved) => emitted = <<>>
        /\ (pre.is_moved /\ WithinHalfPixels(dx, dy))
           => /\ ~post.is_moved
              /\ emitted = <<"CART_ABANDONED">>

Always(state) == TRUE

WhenActive(state) == state.is_moved \/ DetectionActive(state)

C10_NoPurchaseAfterWindowShopped ==
  [][(/\ ret'.op = "handle_exit_with_person"
      /\ Registered
      /\ "WINDOW_SHOPPED" \in lifetime_events)
     => ret'.result = <<>>]_vars

TerminalEvents == {"WINDOW_SHOPPED", "PRODUCT_PURCHASED"}

\* C12: within one lifetime of an object (register_object to EXIT) at most one
\* terminal event is emitted: a call emits WINDOW_SHOPPED or PRODUCT_PURCHASED
\* only if no terminal event was emitted before in the lifetime, and emits at
\* most one.
C12_OneTerminalEvent ==
  [][(ret'.op \in {"update_person_proximity", "handle_exit_with_person"})
     => LET emitted == {i \in 1..Len(ret'.result) : ret'.result[i].type \in TerminalEvents}
        IN /\ Cardinality(emitted) <= 1
           /\ emitted # {} => lifetime_events \cap TerminalEvents = {}]_vars

\* The step is update_position(bbox) on the registered object
UpdatesPosition(bbox) ==
  /\ ret'.op = "update_position"
  /\ ret'.args = bbox
  /\ Registered

\* Displacement of a state from its home, in pixels, is within (px, py)
WithinPx(state, px, py) ==
  /\ Abs(state.current_x - state.home_x) <= px * PosScale
  /\ Abs(state.current_y - state.home_y) <= py * PosScale

C14_DrainedExactlyOnce ==
  [][/\ (ret'.op \in {"update_position", "check_cart_abandoned_timeouts",
                      "update_person_proximity"})
        => pending_events' = pending_events \o ret'.result
     /\ (ret'.op = "get_pending_events")
        => (ret'.result = pending_events /\ pending_events' = <<>>)
     /\ (ret'.op \in {"register_object", "handle_exit_with_person", "tick"})
        => pending_events' = pending_events]_vars

\* ------------------------------------------------------------ the commit
\* The step is mark_added_to_db on the class cup, tracked at a configured view
Commits(v) ==
  /\ ret'.op = "mark_added_to_db"
  /\ ret'.args.view = v
  /\ ret'.args.class_name = "cup"
  /\ Has(view_states[v], "cup")

\* The bounding box of the commit in the step: the argument, or failing that
\* the last bounding box detected for the class
CommitBBox(v) ==
  IF ret'.args.bbox # None THEN ret'.args.bbox ELSE Get(view_states[v], "cup").last_bbox

\* The detector holds an entry state for (v, cup) whose home is the center of bbox
Entered(os, v, bbox) ==
  /\ Has(os, <<v, "cup">>)
  /\ Get(os, <<v, "cup">>).behavioral_state = "PRESENT"
  /\ ~Get(os, <<v, "cup">>).is_moved
  /\ Get(os, <<v, "cup">>).object_id = ret'.args.object_id
  /\ 2 * Get(os, <<v, "cup">>).home_x = (2 * bbox[1] + bbox[3]) * PosScale
  /\ 2 * Get(os, <<v, "cup">>).home_y = (2 * bbox[2] + bbox[4]) * PosScale

\* C15 as stated: after mark_added_to_db on a tracked class the detector holds a
\* state for (view, class) that is PRESENT, not moved, with home at the center of
\* the commit bounding box.
C15_Original ==
  [][\A v \in ConfiguredViews :
       Commits(v) => /\ CommitBBox(v) # None
                     /\ Entered(object_states', v, CommitBBox(v))]_vars

\* C15 amended: the commit registers the object when a bounding box is known,
\* the one of the commit or else the last one detected for the class, and then
\* the detector holds a state for (view, class) that is PRESENT, not moved, with
\* home at the center of that box; when neither is known the commit leaves the
\* detector as it was.
C15_CommitIsEntry ==
  [][\A v \in ConfiguredViews :
       Commits(v) => IF CommitBBox(v) # None
                     THEN Entered(object_states', v, CommitBBox(v))
                     ELSE UNCHANGED <<object_states, pending_events, person_proximity>>]_vars

\* A commit with a bounding box of its own has just registered the class, whose
\* last detected bounding box is another one
C15_Witness ==
  /\ ret.op = "mark_added_to_db"
  /\ ret.args.bbox = FarBBox
  /\ Has(view_states[0], "cup")
  /\ Get(view_states[0], "cup").last_bbox = HomeBBox
  /\ Has(object_states, <<0, "cup">>)
  /\ Get(object_states, <<0, "cup">>).home_x = 850 * PosScale
  /\ Get(object_states, <<0, "cup">>).behavioral_state = "PRESENT"

\* C16: an update whose detections all have an estimated or unknown depth source
\* hands no bounding box to the movement detector (no update_position, no home
\* re-registration): the detector's states, hence is_moved, home and
\* behavioral_state, are as before.
C16_RealDepthOnly ==
  [][(/\ ret'.op = "update"
      /\ ret'.args.detections # <<>>
      /\ \A i \in 1..Len(ret'.args.detections) :
            ret'.args.detections[i].depth_source \in {"estimated", "unknown"})
     => UNCHANGED <<object_states, pending_events, person_proximity>>]_vars

\* ---------------------------------------------------------------- the views
\* The entries of a dict of the detector, keyed (view, class), of views other than v
AtOtherViews(d, v) == SelectSeq(d, LAMBDA e : e.key[1] # v)

\* C17: update(V, detections) leaves the tracked states of every other view,
\* and the movement states and person-proximity entries of every other view, as
\* they were; the absent-marks it queues are for V; and the class is tracked
\* separately at each view, under the object id committed at that view.
C17_ViewsIndependent ==
  [][/\ \A v \in TestViews :
          (ret'.op = "update" /\ ret'.args.view = v)
          => /\ \A w \in TestViews \ {v} : view_states'[w] = view_states[w]
             /\ AtOtherViews(object_states', v) = AtOtherViews(object_states, v)
             /\ AtOtherViews(person_proximity', v) = AtOtherViews(person_proximity, v)
             /\ Len(pending_absent_marks') >= Len(pending_absent_marks)
             /\ \A i \in 1..Len(pending_absent_marks') :
                   i <= Len(pending_absent_marks)
                   \/ pending_absent_marks'[i][1] = v
     /\ \A v \in TestViews :
          Has(view_states'[v], "cup")
          => Get(view_states'[v], "cup").object_id \in {NoId, ObjectIdAt(v)}
     /\ \A v \in TestViews :
          Has(object_states', <<v, "cup">>)
          => Get(object_states', <<v, "cup">>).object_id = ObjectIdAt(v)]_vars

\* update at view 90 has just returned a triple for the class committed there,
\* while the same class, committed at view 0 under another object id, is past
\* the disappearance timeout at view 0 and still marked present
C17_Witness ==
  /\ ret.op = "update"
  /\ ret.args.view = 90
  /\ ~ret.raised
  /\ Len(ret.result) = 1
  /\ ret.result[1].object_id = ObjectIdAt(90)
  /\ Has(view_states[0], "cup")
  /\ Get(view_states[0], "cup").object_id = ObjectIdAt(0)
  /\ Get(view_states[0], "cup").is_present
  /\ Get(view_states[0], "cup").last_seen_age > DisappearTimeout
  /\ Get(view_states[90], "cup").last_seen_age = 0

\* Workers whose HTTP request is outstanding
InFlight == {t \in threads : t.pc = "request"}

CaptureStep == StartThread \/ ConsumeFlag \/ GetLatestDetections \/ DetectReturns

\* Workers started by the step
Started == {t \in threads' : t.pc = "request" /\ t \notin threads}

\* C19: a frame that arrives while pending is set starts no worker and no
\* request (workers are started only for a frame that found pending clear);
\* every step of detect_with_depth can be taken whatever the worker is doing, so
\* the call never waits for the request; and the detections it returns are the
\* ones it read from latest_detections, the result the last finished worker
\* stored.
C19_DroppedNotBlocking ==
  /\ [](capture.pc # "idle" => ENABLED CaptureStep)
  /\ [][/\ (capture.pc = "idle" /\ capture'.pc # "idle" /\ pending)
            => /\ capture'.pc = "consume"
               /\ threads' = threads
               /\ pending'
        /\ \A t \in Started : /\ capture.pc = "start"
                              /\ t.frame = capture.frame
                              /\ threads = {}
        /\ (capture.pc = "get" /\ capture'.pc = "return")
            => capture'.detections = latest_detections
        /\ (capture.pc = "return" /\ capture'.pc = "idle")
            => /\ ret'.op = "detect_with_depth"
               /\ ret'.args = capture.frame
               /\ ret'.result.detections = capture.detections]_vars

\* detect_with_depth has just returned, for a frame that was dropped, the
\* detections of an earlier finished inference while the request of a later
\* worker is still in flight
C19_Witness ==
  /\ capture.pc = "idle"
  /\ ret.op = "detect_with_depth"
  /\ ret.result.detections # <<>>
  /\ \E t \in InFlight : /\ t.frame < ret.args
                         /\ ret.result.detections = Result(t.frame - 1)

\* C20: every result that sets new_results_ready finds the flag clear, so the
\* result before it has been reported by a poll and none is skipped; a poll
\* that reads the flag set clears it in the same locked block, so no result is
\* reported twice; and the detections a poll returns with is_new = true are
\* those of the result that set the flag it consumed.
C20_ConsumedOncePerResult ==
  [][/\ (flagged_by' # flagged_by) => ~new_results_ready
     /\ (capture.pc = "consume" /\ capture'.pc = "get")
          => /\ capture'.is_new = new_results_ready
             /\ ~new_results_ready'
     /\ (capture.pc = "return" /\ capture'.pc = "idle" /\ ret'.result.is_new)
          => ret'.result.detections = ret'.result.consumed.detections]_vars

\* ------------------------------------------------------------- KinectCamera
Area(bbox) == bbox[3] * bbox[4]

InDepthRange(depth) == MinDepth * DepthScale <= depth /\ depth <= MaxDepth * DepthScale

\* C21: estimate_depth returns a depth within [500, 3000] mm for every bounding
\* box (zero and negative areas included), class name and last known depth, and
\* a last known depth within [500, 3000] mm is returned unchanged.
C21_DepthInRange ==
  ret.op = "estimate_depth"
  => /\ InDepthRange(ret.result)
     /\ InDepthRange(ret.args.last_known_depth) => ret.result = ret.args.last_known_depth

\* estimate_depth has just clamped the estimate for a box of one pixel to
\* 3000 mm, the last known depth being out of range
C21_Witness ==
  /\ ret.op = "estimate_depth"
  /\ Area(ret.args.bbox) = 1
  /\ ret.args.last_known_depth > MaxDepth * DepthScale
  /\ ret.result = MaxDepth * DepthScale

\* The call in ret has no last known depth and no class
SizeOnly == ret.op = "estimate_depth" /\ ret.args.last_known_depth = 0 /\ ret.args.class_name = ""

\* The call in ret is on a box that can be halved: its width is even
Halvable == SizeOnly /\ Area(ret.args.bbox) > 0 /\ ret.args.bbox[3] % 2 = 0

\* The box of the call in ret with half the width
Halved == <<ret.args.bbox[1], ret.args.bbox[2], ret.args.bbox[3] \div 2, ret.args.bbox[4]>>

\* b is a times the square root of 2, to the unit
Sqrt2Times(a, b) == b * b < 2 * (a + 1) * (a + 1) /\ 2 * a * a < (b + 1) * (b + 1)

\* C22 as the specification words it: at the reference area the result is
\* 1200 mm, and the result for half the area is the result times sqrt(2), or
\* 3000 mm when that is more.
C22_Original ==
  /\ (SizeOnly /\ Area(ret.args.bbox) = reference_area)
       => ret.result = reference_depth * DepthScale
  /\ Halvable
       => LET q1 == ret.result \div reference_depth
              q2 == estimate_depth(Halved, "", 0) \div reference_depth
              qmax == (MaxDepth * DepthScale) \div reference_depth
          IN \/ Sqrt2Times(q1, q2)
             \/ q2 = qmax /\ 2 * (q1 + 1) * (q1 + 1) >= qmax * qmax

\* C22: with no last known depth and no class, a box of the reference area
\* 30000 px^2 gives exactly 1200 mm; the size estimate for half the area is the
\* size estimate times sqrt(2); and the result is the size estimate clamped to
\* [500, 3000] mm, so it is capped at 3000 mm and never below 500 mm.
C22_SizeEstimate ==
  /\ (SizeOnly /\ Area(ret.args.bbox) = reference_area)
       => ret.result = reference_depth * DepthScale
  /\ Halvable
       => /\ Sqrt2Times(SqrtRatio(Area(ret.args.bbox)), SqrtRatio(Area(Halved)))
          /\ ret.result = Clamp(reference_depth * SqrtRatio(Area(ret.args.bbox)))
          /\ estimate_depth(Halved, "", 0) = Clamp(reference_depth * SqrtRatio(Area(Halved)))
          /\ estimate_depth(Halved, "", 0) <= MaxDepth * DepthScale
          /\ estimate_depth(Halved, "", 0) >= ret.result

\* estimate_depth has just returned 1200 mm for the reference box, whose half
\* gives more than 1200 mm and less than the cap
C22_Witness ==
  /\ Halvable
  /\ Area(ret.args.bbox) = reference_area
  /\ ret.result = reference_depth * DepthScale
  /\ estimate_depth(Halved, "", 0) > ret.result
  /\ estimate_depth(Halved, "", 0) < MaxDepth * DepthScale

\* C23: camera_to_world_coords follows the documented world frame: at pan 90 the
\* world coordinates are the camera coordinates; a point straight ahead of the
\* camera has negative world X at pan 0 and positive world X at pan 180; Y is
\* unchanged and x^2 + z^2 is preserved.
C23_WorldFrame ==
  ret.op = "camera_to_world_coords"
  => LET a == ret.args
         w == ret.result
     IN /\ a.pan_angle = 90 => w = <<a.x_cam, a.y_cam, a.z_cam>>
        /\ (a.pan_angle = 0 /\ a.x_cam = 0 /\ a.z_cam > 0) => w[1] < 0
        /\ (a.pan_angle = 180 /\ a.x_cam = 0 /\ a.z_cam > 0) => w[1] > 0
        /\ w[2] = a.y_cam
        /\ w[1] * w[1] + w[3] * w[3] = a.x_cam * a.x_cam + a.z_cam * a.z_cam

\* ------------------------------------------------------ duplicate detections
\* The first detection of class c with the highest confidence, in input order
FirstBest(detections, c) ==
  detections[CHOOSE i \in 1..Len(detections) :
               /\ detections[i].class_name = c
               /\ detections[i].confidence = BestConfidence(detections, c)
               /\ \A j \in 1..(i - 1) :
                     ~(detections[j].class_name = c
                       /\ detections[j].confidence = BestConfidence(detections, c))]

\* The triples of a returned list that are for class c
TriplesOf(result, c) == {i \in 1..Len(result) : result[i].det.class_name = c}

\* The returned list has one triple per class of the input, for its first best detection
OnePerClass(detections, result) ==
  /\ Len(result) = Cardinality(DetectedClasses(detections))
  /\ \A c \in DetectedClasses(detections) :
        /\ Cardinality(TriplesOf(result, c)) = 1
        /\ \A i \in TriplesOf(result, c) :
              /\ result[i].det.confidence = FirstBest(detections, c).confidence
              /\ result[i].det.center_3d = FirstBest(detections, c).center_3d
              /\ result[i].det.bbox = FirstBest(detections, c).bbox

\* C24: update at a configured view returns exactly one triple per distinct
\* class name of its input, and the detection of that triple is the input
\* detection of the class with the highest confidence, the first such in input
\* order.
C24_OnePerClass ==
  [][(ret'.op = "update" /\ ret'.args.view \in ConfiguredViews
         /\ ret'.args.detections # <<>>)
       => /\ ~ret'.raised
          /\ OnePerClass(ret'.args.detections, ret'.result)]_vars

\* ------------------------------------------------------- refresh baselines
\* The step is an update at view 0 that returns this action for the cup
Returns(action) ==
  /\ ret'.op = "update"
  /\ ret'.args.view = 0
  /\ ~ret'.raised
  /\ Len(ret'.result) = 1
  /\ ret'.result[1].det.class_name = "cup"
  /\ ret'.result[1].action = action

Cup == Get(view_states[0], "cup")

\* C25 as the specification words it: on an update_data the time trigger, if
\* it fired, resets last_update_time, the quality trigger, if it fired, resets
\* best_confidence to the maximum, and the baseline of a trigger that did not
\* fire is left as it was.
C25_Original ==
  [][Returns("update_data")
       => /\ needs_time_update(Cup) => Cup'.last_update_age = 0
          /\ needs_quality_update(Cup, ret'.result[1].det.confidence)
               => Cup'.best_confidence = Max(Cup.best_confidence, ret'.result[1].det.confidence)
          /\ ~needs_time_update(Cup) => Cup'.last_update_age = Cup.last_update_age
          /\ ~needs_quality_update(Cup, ret'.result[1].det.confidence)
               => Cup'.best_confidence = Cup.best_confidence]_vars

\* C25: an update_data fires when the time trigger or the quality trigger
\* holds, and every update_data, whichever trigger caused it, resets both
\* baselines: last_update_time to the current time and best_confidence to the
\* maximum of the old and the new confidence; a skip leaves both as they were.
C25_BothBaselines ==
  [][/\ Returns("update_data")
          => /\ needs_time_update(Cup)
                \/ needs_quality_update(Cup, ret'.result[1].det.confidence)
             /\ Cup'.last_update_age = 0
             /\ Cup'.best_confidence =
                   Max(Cup.best_confidence, ret'.result[1].det.confidence)
     /\ Returns("skip")
          => /\ Cup'.last_update_age = Cup.last_update_age
             /\ Cup'.best_confidence = Cup.best_confidence]_vars

\* update has just returned update_data for a detection whose confidence is
\* below the best one, so on the time trigger alone; the best confidence is
\* kept and the time baseline is reset
C25_Witness ==
  /\ ret.op = "update"
  /\ ~ret.raised
  /\ Len(ret.result) = 1
  /\ ret.result[1].action = "update_data"
  /\ ret.result[1].det.confidence = 70
  /\ Cup.best_confidence = 85
  /\ Cup.last_update_age = 0

\* ------------------------------------------------------------ reappearance
\* The step is an update at view 0 that detects the cup, committed and absent
Reappears ==
  /\ ret'.op = "update"
  /\ ret'.args.view = 0
  /\ Len(ret'.args.detections) = 1
  /\ ret'.args.detections[1].class_name = "cup"
  /\ Has(view_states[0], "cup")
  /\ Cup.in_db
  /\ ~Cup.is_present

\* The detector holds for (0, cup) a state that is PRESENT and not moved, with
\* this object id and its home at the center of bbox
Rebased(os, bbox, object_id) ==
  /\ Has(os, <<0, "cup">>)
  /\ Get(os, <<0, "cup">>).behavioral_state = "PRESENT"
  /\ ~Get(os, <<0, "cup">>).is_moved
  /\ Get(os, <<0, "cup">>).object_id = object_id
  /\ Get(os, <<0, "cup">>).home_x = _get_bbox_center(bbox).x
  /\ Get(os, <<0, "cup">>).home_y = _get_bbox_center(bbox).y

\* C26: after an update that detects a committed, absent class with a bounding
\* box, the class is present, best_confidence is the confidence of the
\* detection, and the movement state of (view, class) is a new baseline: home
\* at the center of the detected bounding box, is_moved false and
\* behavioral_state PRESENT, under the committed object id.
C26_NewBaseline ==
  [][(Reappears /\ ret'.args.detections[1].bbox # None)
       => /\ Cup'.is_present
          /\ Cup'.best_confidence = ret'.args.detections[1].confidence
          /\ Rebased(object_states', ret'.args.detections[1].bbox, Cup.object_id)]_vars

\* update has just returned update_present for a detection away from the old
\* home, and the home of the movement state is the center of its bounding box
C26_Witness ==
  /\ ret.op = "update"
  /\ ~ret.raised
  /\ Len(ret.result) = 1
  /\ ret.result[1].action = "update_present"
  /\ ret.result[1].det.bbox = FarBBox
  /\ Cup.is_present
  /\ Cup.best_confidence = ret.result[1].det.confidence
  /\ Get(object_states, <<0, "cup">>).home_x = _get_bbox_center(FarBBox).x

\* ------------------------------------------------ stabilization and cooldown
Object == Get(object_states, DetectorKey)

Beyond(state) ==
  _is_beyond_threshold(_calculate_displacement(state).dx, _calculate_displacement(state).dy)

\* Less than cart_abandoned_cooldown has passed since the last CART_ABANDONED
CoolingDown(state) ==
  state.last_cart_abandoned_age # NoAge /\ state.last_cart_abandoned_age < CartAbandonedCooldown

\* C28: while less than cart_abandoned_cooldown has passed since a
\* CART_ABANDONED, update_position emits no MOVED, leaves is_moved false and
\* keeps the cooldown running, whatever the displacement; once the cooldown has
\* elapsed, an update_position
\* that finds the object beyond the threshold emits MOVED and sets is_moved.
C28_Cooldown ==
  [][(ret'.op = "update_position" /\ Registered)
       => /\ CoolingDown(Object)
               => /\ ~Object.is_moved
                  /\ ~Object'.is_moved
                  /\ "MOVED" \notin Range(EventTypes(ret'.result))
                  /\ Object'.last_cart_abandoned_age = Object.last_cart_abandoned_age
          /\ (/\ "CART_ABANDONED" \in lifetime_events
              /\ ~Object.is_moved
              /\ DetectionActive(Object)
              /\ Beyond(Object'))
               => /\ Object'.is_moved
                  /\ EventTypes(ret'.result) = <<"MOVED">>]_vars

\* update_position has just found the object beyond the threshold inside the
\* cooldown that follows its return, and emitted nothing
C28_Witness ==
  /\ ret.op = "update_position"
  /\ ret.result = <<>>
  /\ Registered
  /\ "CART_ABANDONED" \in lifetime_events
  /\ CoolingDown(Object)
  /\ Beyond(Object)
  /\ ~Object.is_moved

\* ------------------------------------------------- CART_ABANDONED by timeout
\* C29: check_cart_abandoned_timeouts returns a CART_ABANDONED for the object
\* exactly when it is moved and has been for cart_abandoned_timeout or longer,
\* and at most once in a lifetime; after it is_moved is false, moved_time is
\* cleared, was_ever_moved is true and behavioral_state is CART_ABANDONED; a
\* call that returns nothing leaves the object as it was.
C29_TimeoutOnce ==
  [][(ret'.op = "check_cart_abandoned_timeouts" /\ Registered)
       => /\ ret'.result # <<>>
               <=> (Object.is_moved /\ Object.moved_age >= CartAbandonedTimeout)
          /\ ret'.result # <<>>
               => /\ EventTypes(ret'.result) = <<"CART_ABANDONED">>
                  /\ ret'.result[1].object_id = Object.object_id
                  /\ "TIMEOUT" \notin lifetime_events
                  /\ ~Object'.is_moved
                  /\ Object'.moved_age = NoAge
                  /\ Object'.was_ever_moved
                  /\ Object'.behavioral_state = "CART_ABANDONED"
          /\ ret'.result = <<>> => Object' = Object]_vars

\* check_cart_abandoned_timeouts has just returned the CART_ABANDONED of a
\* moved object
C29_Witness ==
  /\ ret.op = "check_cart_abandoned_timeouts"
  /\ EventTypes(ret.result) = <<"CART_ABANDONED">>
  /\ Registered
  /\ ~Object.is_moved
  /\ Object.was_ever_moved
  /\ Object.behavioral_state = "CART_ABANDONED"

\* C30: after a CART_ABANDONED by timeout and until the object exits, no
\* update_position, update_person_proximity or check_cart_abandoned_timeouts
\* call emits MOVED, CART_ABANDONED or WINDOW_SHOPPED for it, and its
\* behavioral_state stays CART_ABANDONED.
C30_OnlyExitAfterTimeout ==
  [][(/\ ret'.op \in {"update_position", "update_person_proximity",
                      "check_cart_abandoned_timeouts"}
      /\ Registered
      /\ "TIMEOUT" \in lifetime_events)
       => /\ ret'.result = <<>>
          /\ Object.behavioral_state = "CART_ABANDONED"
          /\ Object'.behavioral_state = "CART_ABANDONED"]_vars

\* ------------------------------------------------------------ WINDOW_SHOPPED
\* The update_person_proximity call of this step emitted WINDOW_SHOPPED
EmitsWindowShopped ==
  /\ ret'.op = "update_person_proximity"
  /\ "WINDOW_SHOPPED" \in Range(EventTypes(ret'.result))

\* C31: WINDOW_SHOPPED is emitted only for an object that was never moved in
\* its lifetime: once MOVED has been emitted since the registration, no
\* update_person_proximity call emits WINDOW_SHOPPED for the object.
C31_NeverMovedOnly == [][EmitsWindowShopped => "MOVED" \notin lifetime_events]_vars

\* The person latch of the object's key is set
Latched(pp) == Has(pp, DetectorKey) /\ Get(pp, DetectorKey).person_triggered

\* C32: update_person_proximity emits an event only when the person leaves
\* (person_bbox None) with the latch set for 4 s or longer and the object
\* registered, and then the event is one WINDOW_SHOPPED; a person who leaves
\* earlier, a person in frame and an unregistered key emit nothing; whenever
\* the person is absent after the call the latch is clear.
C32_DwellThenLeave ==
  [][ret'.op = "update_person_proximity"
       => /\ ret'.result # <<>>
               => /\ ret'.args = None
                  /\ Latched(person_proximity)
                  /\ Get(person_proximity, DetectorKey).person_first_seen_age >= PersonDwell
                  /\ Registered
                  /\ EventTypes(ret'.result) = <<"WINDOW_SHOPPED">>
                  /\ ret'.result[1].object_id = Object.object_id
          /\ ret'.args = None => ~Latched(person_proximity')
          /\ ret'.args # None => Latched(person_proximity')]_vars

\* The person has just left after 4 s with the object: WINDOW_SHOPPED is
\* queued and the latch is clear
C32_Witness ==
  /\ ret.op = "update_person_proximity"
  /\ ret.args = None
  /\ EventTypes(ret.result) = <<"WINDOW_SHOPPED">>
  /\ ~Latched(person_proximity)
  /\ pending_events # <<>>

\* C33: once WINDOW_SHOPPED has been emitted in the lifetime of the object, no
\* update_position call emits MOVED or sets is_moved until the object has
\* exited and is registered again.
C33_NoMovedAfterWindowShopped ==
  [][(ret'.op = "update_position" /\ Registered /\ "WINDOW_SHOPPED" \in lifetime_events)
       => /\ ret'.result = <<>>
          /\ ~Object.is_moved
          /\ ~Object'.is_moved
          /\ Registered']_vars

\* After a WINDOW_SHOPPED, update_position has just found the object beyond
\* the threshold, outside the stabilization window and the cooldown, and has
\* emitted nothing
C33_Witness ==
  /\ ret.op = "update_position"
  /\ ret.result = <<>>
  /\ Registered
  /\ "WINDOW_SHOPPED" \in lifetime_events
  /\ Beyond(Object)
  /\ Object.first_seen_age >= StabilizationTime
  /\ ~CoolingDown(Object)
  /\ ~Object.is_moved

\* ------------------------------------------------- moved and returned zones
\* C34: for every displacement and every threshold percentage that
\* set_threshold leaves (0 to 100), _is_beyond_threshold and
\* _is_within_threshold with use_tolerance are never both true.
C34_ZonesDisjoint ==
  ret.op = "thresholds" => ~(ret.result.beyond /\ ret.result.within)

\* A displacement beyond the threshold on one axis and inside the half
\* threshold on the other has been tested: beyond, not within
C34_Witness ==
  /\ ret.op = "thresholds"
  /\ ret.args.percent = MovementThresholdPercent
  /\ ret.args.dx = 193 * PosScale
  /\ ret.args.dy = 54 * PosScale
  /\ ret.result.beyond
  /\ ~ret.result.within

\* ------------------------------------------------- failures of the worker
\* The step is the locked block in which a worker stores a failure
StoresFailure ==
  \E t \in threads : /\ t.pc = "store"
                     /\ t.outcome # "detections"
                     /\ threads' = (threads \ {t}) \cup {[t EXCEPT !.pc = "finally"]}

\* What holds of every step whether or not a failure is overwritten: a frame
\* that finds pending clear starts a worker; a failure is stored as an error
\* with no detections; a poll reads the stored pair and returns no
\* detections when it has read an error
FailureHandling ==
  /\ (capture.pc = "idle" /\ capture'.pc # "idle" /\ ~pending)
       => /\ capture'.pc = "start"
          /\ pending'
  /\ StoresFailure
       => /\ latest_error' # NoError
          /\ latest_detections' = <<>>
  /\ (capture.pc = "get" /\ capture'.pc = "return")
       => /\ capture'.error = latest_error
          /\ capture'.detections = latest_detections
  /\ (capture.pc = "return" /\ capture'.pc = "idle" /\ capture.error # NoError)
       => ret'.result.detections = <<>>

NothingChanged ==
  /\ SetTracker(Tracker)
  /\ ~ret'.raised

\* The commit of this step names a view that is not configured or a class
\* that is not tracked at the view
CommitsUntracked ==
  /\ ret'.op = "mark_added_to_db"
  /\ \/ ret'.args.view \notin ConfiguredViews
     \/ ~Has(view_states[ret'.args.view], ret'.args.class_name)

\* C36: update_position and handle_exit_with_person on a key that is not
\* registered return None, emit no event and change nothing; mark_added_to_db
\* for a view that is not configured or a class that is not tracked at the
\* view creates no tracked state and no movement state; none of them raises.
C36_SoftFailure ==
  [][/\ (ret'.op = "update_position" /\ ~Registered)
          => /\ update_position(Detector, DetectorKey[1], DetectorKey[2], ret'.args).state = None
             /\ ret'.result = <<>>
             /\ NothingChanged
     /\ (ret'.op = "handle_exit_with_person" /\ ~Registered)
          => /\ handle_exit_with_person(Detector, DetectorKey[1], DetectorKey[2]).event = None
             /\ ret'.result = <<>>
             /\ NothingChanged
     /\ CommitsUntracked => NothingChanged]_vars

\* handle_exit_with_person has just been called for the key of an object that
\* is tracked by the tracker, whose person latch is set, but that is not
\* registered with the detector
C36_Witness ==
  /\ ret.op = "handle_exit_with_person"
  /\ ret.result = <<>>
  /\ ~Registered
  /\ Has(view_states[0], "cup")
  /\ Latched(person_proximity)

\* ------------------------------------------------- present means committed
\* The tracked states of a view, as a set
TrackedAt(v) == Range(view_states[v])

\* The update of this step left out a class that is tracked at its view and
\* was never committed
Uncommitted(state) ==
  /\ ret'.op = "update"
  /\ ret'.args.view \in DOMAIN view_states
  /\ state \in TrackedAt(ret'.args.view)
  /\ ~state.in_db
  /\ state.key \notin DetectedClasses(ret'.args.detections)

\* C37: every tracked class that is present is committed and has an object
\* id, and every queued absent-mark carries an object id; an update that
\* leaves out a class that was never committed queues no absent-mark and no
\* behavioral event for it, however long ago it was seen.
C37_PresentIsCommitted ==
  /\ [](/\ \A v \in DOMAIN view_states : \A state \in TrackedAt(v) :
             state.is_present => (state.in_db /\ state.object_id # NoId)
        /\ \A i \in 1..Len(pending_absent_marks) : pending_absent_marks[i][3] # NoId)
  /\ [][\A v \in DOMAIN view_states : \A state \in TrackedAt(v) :
          Uncommitted(state)
            => /\ CountMarks(pending_absent_marks', v, state.key)
                    = CountMarks(pending_absent_marks, v, state.key)
               /\ CountEvents(pending_behavioral_events', v, state.key)
                    = CountEvents(pending_behavioral_events, v, state.key)
               /\ CountEvents(pending_events', v, state.key)
                    = CountEvents(pending_events, v, state.key)
               /\ ~Get(view_states'[v], state.key).is_present]_vars

\* update has just returned for a frame without the cup, which was detected,
\* never committed and last seen longer ago than disappear_timeout, while the
\* laptop is committed and present
C37_Witness ==
  /\ ret.op = "update"
  /\ ~ret.raised
  /\ ret.args.view = 0
  /\ "cup" \notin DetectedClasses(ret.args.detections)
  /\ Has(view_states[0], "cup")
  /\ ~Get(view_states[0], "cup").in_db
  /\ Get(view_states[0], "cup").last_seen_age > DisappearTimeout
  /\ Has(view_states[0], "laptop")
  /\ Get(view_states[0], "laptop").is_present

\* ------------------------------------------- movement states and their objects
\* C38: the detector holds a movement state for (view, class) only if the
\* tracker holds a state for the class at the view that is committed and
\* present.
C38_NoOrphanMovementState ==
  \A i \in 1..Len(object_states) :
    LET key == object_states[i].key
    IN /\ key[1] \in DOMAIN view_states
       /\ Has(view_states[key[1]], key[2])
       /\ Get(view_states[key[1]], key[2]).in_db
       /\ Get(view_states[key[1]], key[2]).is_present

\* -------------------------------------------------------------- was_ever_moved
\* C39: while the object is registered, was_ever_moved is true exactly when
\* MOVED has been emitted for it since its registration, and the
\* PRODUCT_PURCHASED of its EXIT carries was_moved true exactly in that case.
C39_WasEverMoved ==
  /\ [](Registered => (Object.was_ever_moved <=> "MOVED" \in lifetime_events))
  /\ [][(ret'.op = "handle_exit_with_person" /\ Registered /\ ret'.result # <<>>)
          => (ret'.result[1].was_moved <=> "MOVED" \in lifetime_events)]_vars

\* ------------------------------------------------------ the order of a drain
\* The events of a list that belong to one object
OfObject(events, object_id) == SelectSeq(events, LAMBDA e : e.object_id = object_id)

====
